---- MODULE Spec2Model ----
(***************************************************************************)
(* Sigment: the resumable batch orchestrator of LanguageGenerator          *)
(* (src/src/language-generator.js): addWordsToLanguage, processWordsBatch, *)
(* the SIGINT handler, the pause-file poller, checkpoint save/load,        *)
(* cleanupBatchState and reconstructDictionary.                            *)
(*                                                                         *)
(* One step of the model is one stretch of JavaScript between two awaits.  *)
(* File-system calls and processWord are the points where the outcome is   *)
(* chosen by the environment (success or failure).                         *)
(***************************************************************************)
EXTENDS Integers, Sequences, FiniteSets, TLC

\* ------------------------------------------------------------------ bounds
MaxRuns == 2        \* addWordsToLanguage calls in one behaviour
MaxProcs == 2       \* operating-system processes in one behaviour
MaxRecons == 1      \* reconstructDictionary calls in one behaviour

\* --------------------------------------------------------- program constants
DefaultSaveInterval == 25

\* ------------------------------------------------------------------ inputs
\* newWords lists handed to addWordsToLanguage.  " " is a blank entry and
\* "b " is the word b with trailing white space.
Words == {"a", "b", "c", "d"}

InputLists ==
    { <<"a", "b", "c", "d">>,
      <<"b", " ", "b ">> }

\* options.saveInterval: 0 stands for "not given"
SaveIntervalOptions == {0, 2}

\* the language the calls work on, and the names a progress file can carry
\* (cleanupBatchState falls back to 'unknown')
languageName == "sig"
ProgressNames == {"sig", "unknown"}

\* the vocabulary the language has on disk when the behaviour starts
InitialDictionary == {"a"}

\* ------------------------------------------------------------ pure helpers
\* String.prototype.trim on the strings of the model
trim(w) ==
    CASE w = " "  -> ""
      [] w = "b " -> "b"
      [] OTHER    -> w

Range(s) == { s[k] : k \in 1..Len(s) }

RECURSIVE MapTrim(_)
MapTrim(s) == IF s = <<>> THEN <<>> ELSE <<trim(Head(s))>> \o MapTrim(Tail(s))

\* options.saveInterval || 25
EffectiveSaveInterval(opt) == IF opt = 0 THEN DefaultSaveInterval ELSE opt

\* a canonical enumeration of a set of words (Map iteration order is not
\* tracked by the model)
RECURSIVE SetToSeq(_)
SetToSeq(S) ==
    IF S = {} THEN <<>>
    ELSE LET x == CHOOSE y \in S : TRUE
         IN  <<x>> \o SetToSeq(S \ {x})

\* ------------------------------------------------------------------- state
VARIABLES
    \* --- files in options.outputPath
    dictFile,         \* source words stored in English_to_<name>.json
    progressFiles,    \* <name>_batch_progress.json: <<>> or <<checkpoint>>
    pauseFile,        \* TRUE iff the file .pause exists
    \* --- the operating-system process
    exited,           \* the process has ended (process.exit or default SIGINT)
    handlers,         \* number of registered SIGINT listeners
    intervals,        \* number of active setInterval pause pollers
    latestActive,     \* this.pauseCheckInterval names an active interval
    pollPc,           \* position of checkPauseFile: "idle" or "unlink"
    pendingUnlink,    \* fs.unlink of cleanupBatchState not yet carried out
    \* --- the LanguageGenerator instance
    inMemory,         \* languageDatabase holds the language
    vocabulary,       \* language.vocabulary: source word -> entry
    batchState,       \* this.batchState: <<>> (null) or <<record>>
    errors,           \* generationStats.errors
    clock,            \* the time new Date() returns
    \* --- the addWordsToLanguage / processWordsBatch call in progress
    pc,               \* position of the call
    newWords,         \* argument newWords
    wordList,         \* wordsToAdd, the list given to processWordsBatch
    saveInterval,     \* effective saveInterval
    i,                \* loop index (0-based, as in the code)
    processed,        \* local counter processed
    savedAt,          \* local counter savedAt
    outcome,          \* how the last call ended
    result,           \* value returned by the last call
    reconResult,      \* value returned by the last reconstructDictionary
    \* --- history (not program state)
    runs, procs, recons,
    hist,             \* observations about the call in progress
    \* --- the synchronous functions (scores, dictionaries, phonetic mapper)
    fn                \* the call under study: its arguments and its value

procVars == <<exited, handlers, intervals, latestActive, pollPc, pendingUnlink>>
diskVars == <<dictFile, progressFiles, pauseFile>>
genVars  == <<inMemory, vocabulary, batchState, errors, clock>>
callVars == <<pc, newWords, wordList, saveInterval, i, processed, savedAt,
              outcome, result>>
histVars == <<runs, procs, recons, hist>>
batchVars == <<procVars, diskVars, genVars, callVars, reconResult, histVars>>
vars == <<batchVars, fn>>

NoResult == [addedCount |-> 0, skippedCount |-> 0, wasStopped |-> FALSE]
NoRecon  == [reconstructedWords |-> 0, replaced |-> FALSE,
             before |-> [w \in {} |-> 0], failed |-> {}]
\* hist: resumed, startIndex, skipSet: the checkpoint the call resumed from;
\* vocabAtCall: the source words of the vocabulary when the call began;
\* stopInFlight, pausedInFlight: index of the word in flight when shouldStop,
\* isPaused was set (-1: never); abortAt: the save that threw; inserted:
\* words the call put into the vocabulary; started: words handed to
\* processWord; ckptList, ckptFrom: the newWords of the call that wrote the
\* checkpoint on disk and the save that wrote it; failures: processWord
\* calls of the behaviour that caught an error
NoHist   == [resumed |-> FALSE, startIndex |-> 0, skipSet |-> {},
             vocabAtCall |-> {}, stopInFlight |-> -1, pausedInFlight |-> -1,
             abortAt |-> "none", inserted |-> 0, started |-> <<>>,
             ckptList |-> <<>>, ckptFrom |-> "none", failures |-> 0]

\* the history a new call starts with: what is known about the files stays
NewHist == [NoHist EXCEPT !.ckptList = hist.ckptList,
                          !.ckptFrom = hist.ckptFrom,
                          !.failures = hist.failures]

\* no synchronous function is under study
NoCall == [op |-> "none"]

EmptyVocabulary == [w \in {} |-> 0]

\* the entry processWord builds (language-generator.js 430-441)
vocabularyEntry(w, t) == [english |-> w, created |-> t]

\* the vocabulary loadFullLanguageData rebuilds from English_to_<name>.json
LoadedVocabulary(dict) == [w \in dict |-> vocabularyEntry(w, 0)]

BS == batchState[1]
HasBatch == batchState # <<>>
SetBS(f, v) == <<[BS EXCEPT ![f] = v]>>

\* the files, the process and the generator before any call
InitialState ==
    /\ dictFile = InitialDictionary
    /\ progressFiles = [n \in ProgressNames |-> <<>>]
    /\ pauseFile = FALSE
    /\ exited = FALSE /\ handlers = 0 /\ intervals = 0
    /\ latestActive = FALSE /\ pollPc = "idle" /\ pendingUnlink = FALSE
    /\ inMemory = FALSE /\ vocabulary = EmptyVocabulary
    /\ batchState = <<>> /\ errors = <<>> /\ clock = 1
    /\ pc = "idle" /\ newWords = <<>> /\ wordList = <<>>
    /\ saveInterval = DefaultSaveInterval
    /\ i = 0 /\ processed = 0 /\ savedAt = 0
    /\ outcome = "none" /\ result = NoResult /\ reconResult = NoRecon
    /\ runs = 0 /\ procs = 1 /\ recons = 0 /\ hist = NoHist

Init == InitialState /\ fn = NoCall

\* ----------------------------------------------------- addWordsToLanguage
\* a filter that lets the words of the vocabulary through
KeepWordExisting(word, vocab) == trim(word) # ""

\* the filter of addWordsToLanguage (language-generator.js 888-896)
KeepWord(word, vocab) ==
    LET cleanWord == trim(word)
    IN  /\ cleanWord # ""
        /\ cleanWord \notin DOMAIN vocab

FilterWords(L, vocab) == MapTrim(SelectSeq(L, LAMBDA w : KeepWord(w, vocab)))

\* loadFullLanguageData: the language in memory if it has words, else the
\* one rebuilt from the dictionary file
LoadFullLanguageData ==
    IF inMemory /\ DOMAIN vocabulary # {} THEN vocabulary
    ELSE LoadedVocabulary(dictFile)

\* line 282 without the test on processedWords
ShouldProcessNoDedup(word, done) ==
    trim(word) # ""

\* the test that lets a word of the list into processWord (line 282)
ShouldProcess(word, done) ==
    /\ trim(word) # ""
    /\ trim(word) \notin done

\* a record whose currentIndex is one past the index handed over
CheckpointAhead(index) ==
    [currentIndex |-> index + 1, totalWords |-> Len(wordList),
     processedWords |-> BS.processedWords, timestamp |-> clock,
     languageName |-> languageName,
     vocabularySize |-> Cardinality(DOMAIN vocabulary)]

\* the record saveBatchProgress writes (lines 372-379)
Checkpoint(index) ==
    [currentIndex |-> index, totalWords |-> Len(wordList),
     processedWords |-> BS.processedWords, timestamp |-> clock,
     languageName |-> languageName,
     vocabularySize |-> Cardinality(DOMAIN vocabulary)]

\* the batchState loadBatchProgress leaves (lines 241-247 and 387-389)
InitialBatchState(total, ckpt) ==
    [isPaused |-> FALSE, shouldStop |-> FALSE,
     currentIndex |-> IF ckpt = <<>> THEN 0 ELSE ckpt[1].currentIndex,
     totalWords |-> total,
     processedWords |-> IF ckpt = <<>> THEN {} ELSE ckpt[1].processedWords]

\* the condition of the incremental save (line 300)
SaveDue(n, every, last) == n > 0 /\ n % every = 0 /\ n # last

\* the file name cleanupBatchState removes (line 408): batchState has no
\* field languageName
CleanupTarget == "unknown"

Alive == ~exited

\* addWordsToLanguage up to the first iteration of processWordsBatch
AddWords(L, opt, allowPause) ==
    /\ Alive /\ pc = "idle" /\ runs < MaxRuns
    /\ LET lang == LoadFullLanguageData
           wl   == FilterWords(L, lang)
           ckpt == progressFiles[languageName]
           bs   == InitialBatchState(Len(wl), ckpt)
       IN  /\ inMemory' = TRUE
           /\ vocabulary' = lang
           /\ newWords' = L
           /\ runs' = runs + 1
           /\ IF wl = <<>>
              THEN /\ result' = [addedCount |-> 0, skippedCount |-> Len(L),
                                 wasStopped |-> FALSE]
                   /\ outcome' = "noNewWords"
                   /\ hist' = [NewHist EXCEPT !.vocabAtCall = DOMAIN lang]
                   /\ UNCHANGED <<pc, wordList, saveInterval, i, processed,
                                  savedAt, batchState, handlers, intervals,
                                  latestActive>>
              ELSE /\ wordList' = wl
                   /\ saveInterval' = EffectiveSaveInterval(opt)
                   /\ batchState' = <<bs>>
                   /\ handlers' = IF allowPause THEN handlers + 1 ELSE handlers
                   /\ intervals' = IF allowPause THEN intervals + 1 ELSE intervals
                   /\ latestActive' = (allowPause \/ latestActive)
                   /\ i' = bs.currentIndex
                   /\ processed' = 0 /\ savedAt' = 0
                   /\ pc' = "check"
                   /\ outcome' = "running"
                   /\ result' = NoResult
                   /\ hist' = [NewHist EXCEPT !.resumed = (ckpt # <<>>),
                                  !.startIndex = bs.currentIndex,
                                  !.skipSet = bs.processedWords,
                                  !.vocabAtCall = DOMAIN lang]
    /\ UNCHANGED <<diskVars, exited, pollPc, pendingUnlink, errors, clock,
                   reconResult, procs, recons>>
    /\ UNCHANGED fn

\* ------------------------------------------------------ processWordsBatch
\* a loop that does not advance past the word it handled
AfterWordNoAdvance(n, bs) ==
    /\ batchState' = <<bs>>
    /\ pc' = "check" /\ i' = i

\* lines 297-306 after a word was handled: advance the index and decide
\* whether the incremental save runs
AfterWord(n, bs) ==
    /\ batchState' = <<[bs EXCEPT !.currentIndex = i + 1]>>
    /\ IF SaveDue(n, saveInterval, savedAt)
       THEN pc' = "saving" /\ i' = i
       ELSE pc' = "check" /\ i' = i + 1

\* line 281-282: take the word at index i, or pass over it
TakeWord ==
    LET word == wordList[i + 1]
    IN  IF ShouldProcess(word, BS.processedWords)
        THEN /\ pc' = "inflight"
             /\ hist' = [hist EXCEPT !.started = Append(@, trim(word))]
             /\ UNCHANGED <<batchState, i>>
        ELSE /\ AfterWord(processed, BS)
             /\ UNCHANGED hist

\* a loop that never waits
MustWaitNever(bs) == FALSE

\* the condition of the pause loop (line 276)
MustWait(bs) == bs.isPaused

\* top of the loop (lines 265-281)
LoopCheck ==
    /\ Alive /\ pc = "check"
    /\ IF i >= Len(wordList)
       THEN pc' = "finalSave" /\ UNCHANGED <<batchState, i, hist>>
       ELSE IF BS.shouldStop
       THEN pc' = "stopSave" /\ UNCHANGED <<batchState, i, hist>>
       ELSE IF MustWait(BS)
       THEN pc' = "paused" /\ UNCHANGED <<batchState, i, hist>>
       ELSE TakeWord
    /\ UNCHANGED <<procVars, diskVars, inMemory, vocabulary, errors, clock,
                   newWords, wordList, saveInterval, processed, savedAt,
                   outcome, result, reconResult, runs, procs, recons>>
    /\ UNCHANGED fn

\* the pause loop (lines 276-279) is left once isPaused is false
PauseWait ==
    /\ Alive /\ pc = "paused"
    /\ ~MustWait(BS)
    /\ TakeWord
    /\ UNCHANGED <<procVars, diskVars, inMemory, vocabulary, errors, clock,
                   newWords, wordList, saveInterval, processed, savedAt,
                   outcome, result, reconResult, runs, procs, recons>>
    /\ UNCHANGED fn

\* a processWord that sets the entry whether or not an error was caught
VocabularyAfterWordAlways(vocab, englishWord, ok, t) ==
    [w \in DOMAIN vocab \cup {englishWord} |->
        IF w = englishWord THEN vocabularyEntry(englishWord, t) ELSE vocab[w]]

\* language.vocabulary after processWord (lines 415-459): the entry is set
\* at the end of the try block, so not when an error was caught
VocabularyAfterWord(vocab, englishWord, ok, t) ==
    IF ok
    THEN [w \in DOMAIN vocab \cup {englishWord} |->
             IF w = englishWord THEN vocabularyEntry(englishWord, t)
             ELSE vocab[w]]
    ELSE vocab

\* generationStats.errors after processWord (lines 452-457)
ErrorsAfterWord(errs, englishWord, ok, msg, t) ==
    IF ok THEN errs
    ELSE Append(errs, [word |-> englishWord, error |-> msg, timestamp |-> t])

\* processWord returns (lines 414-460 and 284-286): ok tells whether the
\* body ran to the end or an error was caught
ProcessWordDone(ok, msg) ==
    /\ Alive /\ pc = "inflight"
    /\ LET englishWord == trim(wordList[i + 1])
           bs == [BS EXCEPT !.processedWords = @ \cup {englishWord}]
       IN  /\ vocabulary' = VocabularyAfterWord(vocabulary, englishWord, ok, clock)
           /\ errors' = ErrorsAfterWord(errors, englishWord, ok, msg, clock)
           /\ hist' = IF ok THEN [hist EXCEPT !.inserted = @ + 1]
                      ELSE [hist EXCEPT !.failures = @ + 1]
           /\ clock' = clock + 1
           /\ processed' = processed + 1
           /\ AfterWord(processed + 1, bs)
    /\ UNCHANGED <<procVars, diskVars, inMemory, newWords, wordList,
                   saveInterval, savedAt, outcome, result, reconResult,
                   runs, procs, recons>>
    /\ UNCHANGED fn

\* generateDictionaries (lines 496-531): the dictionary files hold the words
\* of the vocabulary in memory
FlushedDictionary == DOMAIN vocabulary

\* the value addWordsToLanguage returns after processWordsBatch (931-953)
AddResult(stopped) ==
    [addedCount |-> processed,
     skippedCount |-> Len(newWords) - processed,
     wasStopped |-> stopped]

\* an exception leaves processWordsBatch and addWordsToLanguage (955-958)
Abort(where) ==
    /\ pc' = "idle"
    /\ outcome' = "aborted"
    /\ hist' = [hist EXCEPT !.abortAt = where]

IoOutcomes == {"ok", "failProgress", "failDictionaries"}

\* the incremental save (lines 300-306)
IntervalSave(io) ==
    /\ Alive /\ pc = "saving"
    /\ progressFiles' = IF io = "failProgress" THEN progressFiles
                        ELSE [progressFiles EXCEPT
                                 ![languageName] = <<Checkpoint(i + 1)>>]
    /\ dictFile' = IF io = "ok" THEN FlushedDictionary ELSE dictFile
    /\ IF io = "ok"
       THEN /\ savedAt' = processed
            /\ pc' = "check" /\ i' = i + 1
            /\ hist' = [hist EXCEPT !.ckptList = newWords,
                                    !.ckptFrom = "interval"]
            /\ UNCHANGED outcome
       ELSE /\ Abort("interval")
            /\ UNCHANGED <<savedAt, i>>
    /\ UNCHANGED <<procVars, pauseFile, genVars, newWords,
                   wordList, saveInterval, processed, result, reconResult,
                   runs, procs, recons>>
    /\ UNCHANGED fn

\* the graceful exit (lines 267-273) and the return of addWordsToLanguage
StopSave(io) ==
    /\ Alive /\ pc = "stopSave"
    /\ progressFiles' = IF io = "failProgress" THEN progressFiles
                        ELSE [progressFiles EXCEPT
                                 ![languageName] = <<Checkpoint(i)>>]
    /\ dictFile' = IF io = "ok" THEN FlushedDictionary ELSE dictFile
    /\ IF io = "ok"
       THEN /\ pc' = "idle"
            /\ outcome' = "stopped"
            /\ result' = AddResult(TRUE)
            /\ hist' = [hist EXCEPT !.ckptList = newWords,
                                    !.ckptFrom = "stop"]
       ELSE /\ Abort("stop")
            /\ UNCHANGED result
    /\ UNCHANGED <<procVars, pauseFile, genVars, newWords,
                   wordList, saveInterval, i, processed, savedAt,
                   reconResult, runs, procs, recons>>
    /\ UNCHANGED fn

FinalOutcomes == {"ok", "failFirst", "failSecond"}

\* the end of the loop (lines 312-319): final save and cleanupBatchState
\* (402-412), then the final generateDictionaries of addWordsToLanguage
\* (938-941)
FinalSave(io) ==
    /\ Alive /\ pc = "finalSave"
    /\ dictFile' = IF io = "failFirst" THEN dictFile ELSE FlushedDictionary
    /\ IF io = "failFirst"
       THEN UNCHANGED <<intervals, latestActive, pendingUnlink, batchState>>
       ELSE /\ intervals' = IF latestActive THEN intervals - 1 ELSE intervals
            /\ latestActive' = FALSE
            /\ pendingUnlink' = TRUE
            /\ batchState' = <<>>
    /\ IF io = "ok"
       THEN /\ pc' = "idle"
            /\ outcome' = "completed"
            /\ result' = AddResult(FALSE)
            /\ UNCHANGED hist
       ELSE /\ Abort("final")
            /\ UNCHANGED result
    /\ UNCHANGED <<exited, handlers, pollPc, progressFiles,
                   pauseFile, inMemory, vocabulary, errors, clock, newWords,
                   wordList, saveInterval, i, processed, savedAt,
                   reconResult, runs, procs, recons>>
    /\ UNCHANGED fn

\* the fs.unlink started by cleanupBatchState completes (line 409)
UnlinkProgress ==
    /\ Alive /\ pendingUnlink
    /\ pendingUnlink' = FALSE
    /\ progressFiles' = [progressFiles EXCEPT ![CleanupTarget] = <<>>]
    /\ UNCHANGED <<exited, handlers, intervals, latestActive, pollPc,
                   dictFile, pauseFile, genVars, callVars,
                   reconResult, histVars>>
    /\ UNCHANGED fn

\* ------------------------------------------------------------ SIGINT
\* Every listener registered by setupBatchSignalHandlers (lines 328-336)
\* runs, in order; without a listener Node ends the process.
FirstHandlerStops == HasBatch /\ ~BS.shouldStop

Sigint ==
    /\ Alive
    /\ LET graceful == handlers = 1 /\ FirstHandlerStops
       IN  /\ exited' = ~graceful
           /\ batchState' = IF handlers >= 1 /\ FirstHandlerStops
                            THEN SetBS("shouldStop", TRUE) ELSE batchState
           /\ outcome' = IF ~graceful /\ pc # "idle" THEN "exited" ELSE outcome
           /\ hist' = IF graceful /\ pc = "inflight"
                      THEN [hist EXCEPT !.stopInFlight = i] ELSE hist
    /\ UNCHANGED <<handlers, intervals, latestActive, pollPc, pendingUnlink,
                   diskVars, inMemory, vocabulary, errors, clock, pc,
                   newWords, wordList, saveInterval, i, processed, savedAt,
                   result, reconResult, runs, procs, recons>>
    /\ UNCHANGED fn

\* ------------------------------------------------------- pause poller
\* checkPauseFile up to the await of fs.unlink (lines 346-356)
PollAccess ==
    /\ Alive /\ intervals > 0 /\ pollPc = "idle"
    /\ pauseFile /\ HasBatch
    /\ batchState' = SetBS("isPaused", TRUE)
    /\ pollPc' = "unlink"
    /\ hist' = IF pc = "inflight" /\ ~BS.isPaused
               THEN [hist EXCEPT !.pausedInFlight = i] ELSE hist
    /\ UNCHANGED <<exited, handlers, intervals, latestActive, pendingUnlink,
                   diskVars, inMemory, vocabulary, errors, clock, callVars,
                   reconResult, runs, procs, recons>>
    /\ UNCHANGED fn

\* fs.unlink returns (lines 356-363): removed tells whether it succeeded
PollUnlink(removed) ==
    /\ Alive /\ pollPc = "unlink"
    /\ pollPc' = "idle"
    /\ IF removed /\ pauseFile
       THEN /\ pauseFile' = FALSE
            /\ batchState' = IF HasBatch /\ BS.isPaused
                             THEN SetBS("isPaused", FALSE) ELSE batchState
       ELSE UNCHANGED <<pauseFile, batchState>>
    /\ UNCHANGED <<exited, handlers, intervals, latestActive, pendingUnlink,
                   dictFile, progressFiles, inMemory,
                   vocabulary, errors, clock, callVars, reconResult,
                   histVars>>
    /\ UNCHANGED fn

\* ------------------------------------------------ the batch utilities
\* sigment batch --pause (cli.js 1472-1476)
CreatePauseFile ==
    /\ pc # "idle"
    /\ ~pauseFile
    /\ pauseFile' = TRUE
    /\ UNCHANGED <<procVars, dictFile, progressFiles, genVars,
                   callVars, reconResult, histVars>>
    /\ UNCHANGED fn

\* sigment batch --clean (cli.js 1513-1534)
BatchClean ==
    /\ pauseFile \/ \E n \in ProgressNames : progressFiles[n] # <<>>
    /\ pauseFile' = FALSE
    /\ progressFiles' = [n \in ProgressNames |-> <<>>]
    /\ UNCHANGED <<procVars, dictFile, genVars, callVars,
                   reconResult, histVars>>
    /\ UNCHANGED fn

\* a new process with a new LanguageGenerator; the files stay
NewProcess ==
    /\ exited \/ pc = "idle"
    /\ procs < MaxProcs
    /\ procs' = procs + 1
    /\ exited' = FALSE /\ handlers' = 0 /\ intervals' = 0
    /\ latestActive' = FALSE /\ pollPc' = "idle" /\ pendingUnlink' = FALSE
    /\ inMemory' = FALSE /\ vocabulary' = EmptyVocabulary
    /\ batchState' = <<>> /\ errors' = <<>>
    /\ pc' = "idle" /\ newWords' = <<>> /\ wordList' = <<>>
    /\ saveInterval' = DefaultSaveInterval
    /\ i' = 0 /\ processed' = 0 /\ savedAt' = 0
    /\ outcome' = "none" /\ result' = NoResult /\ reconResult' = NoRecon
    /\ hist' = NewHist
    /\ UNCHANGED <<diskVars, clock, runs, recons>>
    /\ UNCHANGED fn

\* ------------------------------------------------- reconstructDictionary
ErrorMessages == {"error"}

\* the errors processWord records for the words of F (lines 452-459)
RECURSIVE ErrorEntries(_, _)
ErrorEntries(ws, t) ==
    IF ws = <<>> THEN <<>>
    ELSE <<[word |-> Head(ws), error |-> "error", timestamp |-> t]>>
         \o ErrorEntries(Tail(ws), t)

\* the vocabulary reconstructDictionary leaves in language.vocabulary
\* (lines 1320-1363): original is the vocabulary before, F the words whose
\* processWord caught an error, t the time
ReconstructedVocabulary(original, F, t) ==
    LET vocabularyList == DOMAIN original
        reconstructed  == Cardinality(vocabularyList)
        temp == [w \in vocabularyList \ F |-> vocabularyEntry(w, t)]
    IN  IF reconstructed > 0 THEN temp ELSE original

\* reconstructLanguage of the command line (cli.js 1400-1467), or the
\* reconstruction offered after add-words (cli.js 1038-1061): take the
\* language, reconstructDictionary, generateDictionaries (flushed tells
\* whether the dictionary files were written)
Reconstruct(F, flushed) ==
    /\ Alive /\ pc = "idle" /\ recons < MaxRecons
    /\ LET original == LoadFullLanguageData
       IN  /\ F \subseteq DOMAIN original
           /\ inMemory' = TRUE
           /\ vocabulary' = ReconstructedVocabulary(original, F, clock)
           /\ errors' = errors \o ErrorEntries(SetToSeq(F), clock)
           /\ reconResult' =
                 [reconstructedWords |-> Cardinality(DOMAIN original),
                  replaced |-> Cardinality(DOMAIN original) > 0,
                  before |-> original,
                  failed |-> F]
    /\ clock' = clock + 1
    /\ recons' = recons + 1
    /\ dictFile' = IF flushed THEN DOMAIN vocabulary' ELSE dictFile
    /\ hist' = [hist EXCEPT !.failures = @ + Cardinality(F)]
    /\ UNCHANGED <<procVars, progressFiles, pauseFile,
                   batchState, callVars, runs, procs>>
    /\ UNCHANGED fn

\* ------------------------------------------------------------------ Next
Next ==
    \/ \E L \in InputLists, opt \in SaveIntervalOptions, ap \in BOOLEAN :
          AddWords(L, opt, ap)
    \/ LoopCheck
    \/ PauseWait
    \/ \E ok \in BOOLEAN, msg \in ErrorMessages : ProcessWordDone(ok, msg)
    \/ \E io \in IoOutcomes : IntervalSave(io)
    \/ \E io \in IoOutcomes : StopSave(io)
    \/ \E io \in FinalOutcomes : FinalSave(io)
    \/ UnlinkProgress
    \/ Sigint
    \/ PollAccess
    \/ \E removed \in BOOLEAN : PollUnlink(removed)
    \/ CreatePauseFile
    \/ BatchClean
    \/ NewProcess

Spec == Init /\ [][Next]_vars

\* the batch without signals, followed by reconstruction
ReconNext ==
    \/ \E L \in InputLists, opt \in SaveIntervalOptions :
          AddWords(L, opt, TRUE)
    \/ LoopCheck
    \/ \E ok \in BOOLEAN, msg \in ErrorMessages : ProcessWordDone(ok, msg)
    \/ \E io \in IoOutcomes : IntervalSave(io)
    \/ \E io \in FinalOutcomes : FinalSave(io)
    \/ \E F \in SUBSET Words, flushed \in BOOLEAN : Reconstruct(F, flushed)

ReconSpec == Init /\ [][ReconNext]_vars

\* one batch with the pause file and its poller.  The event loop of Node
\* runs every timer and every continuation that is ready, and every file
\* system call returns: the steps of the program are weakly fair; the
\* utilities and the signals of the user are not.
PauseNext ==
    \/ /\ runs = 0
       /\ \E L \in InputLists : AddWords(L, 0, TRUE)
    \/ LoopCheck
    \/ PauseWait
    \/ \E ok \in BOOLEAN, msg \in ErrorMessages : ProcessWordDone(ok, msg)
    \/ \E io \in FinalOutcomes : FinalSave(io)
    \/ UnlinkProgress
    \/ PollAccess
    \/ \E removed \in BOOLEAN : PollUnlink(removed)
    \/ CreatePauseFile
    \/ BatchClean

PauseFairSpec ==
    /\ Init /\ [][PauseNext]_vars
    /\ WF_vars(LoopCheck)
    /\ WF_vars(PauseWait)
    /\ WF_vars(\E ok \in BOOLEAN, msg \in ErrorMessages : ProcessWordDone(ok, msg))
    /\ WF_vars(\E io \in FinalOutcomes : FinalSave(io))
    /\ WF_vars(UnlinkProgress)
    /\ WF_vars(PollAccess)
    /\ WF_vars(\E removed \in BOOLEAN : PollUnlink(removed))

\* two calls on the same language with lists that overlap in one word; the
\* checkpoint file is keyed by the language alone (lines 908-919)
ResumeLists == { <<"b", "c">>, <<"c", "d">> }

ResumeNext ==
    \/ \E L \in ResumeLists, opt \in SaveIntervalOptions :
          AddWords(L, opt, TRUE)
    \/ LoopCheck
    \/ \E ok \in BOOLEAN, msg \in ErrorMessages : ProcessWordDone(ok, msg)
    \/ \E io \in IoOutcomes : IntervalSave(io)
    \/ \E io \in IoOutcomes : StopSave(io)
    \/ \E io \in FinalOutcomes : FinalSave(io)
    \/ UnlinkProgress
    \/ Sigint
    \/ NewProcess

ResumeSpec == Init /\ [][ResumeNext]_vars

\* ------------------------------------------------- phonetic patterns
\* Words are sequences of characters here.  toLowerCase on the characters
\* of the model:
toLowerCase(c) == IF c = "B" THEN "b" ELSE c

\* 'aeiou' and 'bcdfghjklmnpqrstvwxyz' (lines 1203 and 1212)
VowelKeys == {"a", "e", "i", "o", "u"}
ConsonantKeys ==
    {"b", "c", "d", "f", "g", "h", "j", "k", "l", "m", "n", "p", "q", "r",
     "s", "t", "v", "w", "x", "y", "z"}

\* the pairs (entry, position) the two loops of analyzePhoneticPatterns
\* visit (lines 1197-1199), positions 1-based
Observations(vocab) ==
    UNION { { <<n, k>> : k \in 1..Len(vocab[n].english) } :
            n \in 1..Len(vocab) }

\* englishChar and sigmentChar of a visit (lines 1200-1201)
EnglishChar(vocab, o) == toLowerCase(vocab[o[1]].english[o[2]])
SigmentChar(vocab, o) ==
    IF o[2] <= Len(vocab[o[1]].sigment)
    THEN toLowerCase(vocab[o[1]].sigment[o[2]]) ELSE ""

\* the Map of Maps the loops leave for the characters of keys (lines
\* 1203-1219): source character -> target character -> number of visits
TransformCounts(vocab, keys) ==
    LET obs == Observations(vocab)
        seen == { EnglishChar(vocab, o) : o \in obs } \cap keys
    IN  [c \in seen |->
            LET of == { o \in obs : EnglishChar(vocab, o) = c }
            IN  [t \in { SigmentChar(vocab, o) : o \in of } |->
                    Cardinality({ o \in of : SigmentChar(vocab, o) = t })]]

\* Numbers that JavaScript holds as doubles are exact fractions here.
RECURSIVE Gcd(_, _)
Gcd(a, b) == IF b = 0 THEN a ELSE Gcd(b, a % b)

Fraction(n, d) ==
    LET g == Gcd(n, d)
    IN  IF n = 0 THEN [num |-> 0, den |-> 1]
        ELSE [num |-> n \div g, den |-> d \div g]

FractionSum(x, y) == Fraction(x.num * y.den + y.num * x.den, x.den * y.den)
FractionLess(x, y) == x.num * y.den < y.num * x.den
Whole(n) == [num |-> n, den |-> 1]

RECURSIVE SumValues(_)
SumValues(m) ==
    IF DOMAIN m = {} THEN 0
    ELSE LET k == CHOOSE x \in DOMAIN m : TRUE
         IN  m[k] + SumValues([x \in DOMAIN m \ {k} |-> m[x]])

\* the count of the least frequent target
MinValue(m) == CHOOSE v \in {m[k] : k \in DOMAIN m} : \A k \in DOMAIN m : v <= m[k]

MaxValue(m) == CHOOSE v \in {m[k] : k \in DOMAIN m} : \A k \in DOMAIN m : m[k] <= v

\* one loop of calculateConsistencyScore (lines 1245-1251 and 1254-1260):
\* acc is [totalScore, factors]
RECURSIVE ScoreLoop(_, _)
ScoreLoop(acc, m) ==
    IF DOMAIN m = {} THEN acc
    ELSE LET k == CHOOSE x \in DOMAIN m : TRUE
             maxCount == MaxValue(m[k])
             totalCount == SumValues(m[k])
             next == [totalScore |->
                         FractionSum(acc.totalScore,
                                     Fraction(maxCount * 100, totalCount)),
                      factors |-> acc.factors + 1]
         IN  ScoreLoop(next, [x \in DOMAIN m \ {k} |-> m[x]])

calculateConsistencyScore(patterns) ==
    LET start == [totalScore |-> Whole(0), factors |-> 0]
        acc == ScoreLoop(ScoreLoop(start, patterns.vowelTransformations),
                         patterns.consonantShifts)
    IN  IF acc.factors > 0
        THEN Fraction(acc.totalScore.num, acc.totalScore.den * acc.factors)
        ELSE Whole(0)

\* analyzePhoneticPatterns (lines 1186-1238); language.vocabulary is the
\* sequence of its entries in insertion order
analyzePhoneticPatterns(vocab) ==
    LET patterns == [vowelTransformations |-> TransformCounts(vocab, VowelKeys),
                     consonantShifts |-> TransformCounts(vocab, ConsonantKeys)]
    IN  [vowelTransformations |-> patterns.vowelTransformations,
         consonantShifts |-> patterns.consonantShifts,
         consistencyScore |-> calculateConsistencyScore(patterns)]

\* detectPatternConflicts (lines 1299-1311)
VowelConflictLimit == 3
ConsonantConflictLimit == 2
ConflictLimit == 3

\* a detector that counts a letter as conflicted only beyond three targets,
\* vowel or consonant
detectPatternConflictsVowelLimit(patterns) ==
    LET all == { c \in DOMAIN patterns.vowelTransformations :
                   Cardinality(DOMAIN patterns.vowelTransformations[c])
                      > VowelConflictLimit }
               \cup
               { c \in DOMAIN patterns.consonantShifts :
                   Cardinality(DOMAIN patterns.consonantShifts[c])
                      > VowelConflictLimit }
    IN  Cardinality(all) > ConflictLimit

detectPatternConflicts(patterns) ==
    LET v == { c \in DOMAIN patterns.vowelTransformations :
                 Cardinality(DOMAIN patterns.vowelTransformations[c])
                    > VowelConflictLimit }
        k == { c \in DOMAIN patterns.consonantShifts :
                 Cardinality(DOMAIN patterns.consonantShifts[c])
                    > ConsonantConflictLimit }
        conflicts == Cardinality(v) + Cardinality(k)
    IN  conflicts > ConflictLimit

\* shouldReconstructDictionary (lines 1265-1297).  The test
\* newWordCount > size * 0.1 is taken exactly: the double 0.1 is a little
\* above one tenth, so the rounded product is never below size / 10.
LowConsistencyBelow == 70
SizeThreshold == 50

shouldReconstructDictionary(vocab, newWordCount) ==
    LET currentPatterns == analyzePhoneticPatterns(vocab)
        size == Len(vocab)
        triggers ==
            [lowConsistency |->
                 FractionLess(currentPatterns.consistencyScore,
                              Whole(LowConsistencyBelow)),
             significantAddition |-> newWordCount * 10 > size,
             vocabularySizeThreshold |-> size > SizeThreshold,
             patternConflicts |-> detectPatternConflicts(currentPatterns)]
        r1 == IF triggers.lowConsistency THEN <<"lowConsistency">> ELSE <<>>
        r2 == IF triggers.significantAddition
              THEN Append(r1, "significantAddition") ELSE r1
        r3 == IF triggers.vocabularySizeThreshold
              THEN Append(r2, "vocabularySizeThreshold") ELSE r2
        r4 == IF triggers.patternConflicts
              THEN Append(r3, "patternConflicts") ELSE r3
    IN  [shouldReconstruct |->
             \E t \in DOMAIN triggers : triggers[t],
         reasons |-> r4,
         currentConsistency |-> currentPatterns.consistencyScore,
         triggers |-> triggers]

\* ---- the vocabularies the pattern functions are studied on
\* an entry as far as the pattern functions read it
PatternEntry(english, sigment) == [english |-> english, sigment |-> sigment]

EntryPool ==
    { PatternEntry(<<"b", "a", "d">>, <<"p", "a", "t">>),
      PatternEntry(<<"d", "a", "b">>, <<"t", "e", "p">>),
      PatternEntry(<<"B", "e">>, <<"p">>),
      PatternEntry(<<"a", "-", "a">>, <<"a", "-", "o">>),
      PatternEntry(<<"d", "o">>, <<"d", "o">>) }

\* n copies of a character
Repeat(c, n) == [k \in 1..n |-> c]

\* sizes of the generated vocabularies
LargeSize == 51
ConflictSize == 7

\* a consistent vocabulary of more than 50 words: a00, a01, ..., a62
LargeVocabulary ==
    [n \in 1..LargeSize |->
        LET word == <<"a", ToString((n - 1) \div 8), ToString((n - 1) % 8)>>
        IN  PatternEntry(word, word)]

\* four consonants that each have three targets, one of them dominant
ConflictVocabulary ==
    [n \in 1..ConflictSize |->
        PatternEntry(<<"b", "d", "g", "k">> \o Repeat("-", n - 1),
                     IF n = 1 THEN <<"b", "d", "g", "k">>
                     ELSE IF n = 2 THEN <<"v", "z", "j", "w">>
                     ELSE <<"p", "t", "k", "g">>)]

PatternVocabularies ==
    { <<>>, LargeVocabulary, ConflictVocabulary }
    \cup { <<e>> : e \in EntryPool }
    \cup { <<p[1], p[2]>> :
              p \in { q \in EntryPool \X EntryPool : q[1] # q[2] } }

NewWordCounts == {0, 1, 6}

PatternInit ==
    /\ InitialState
    /\ \E v \in PatternVocabularies, n \in NewWordCounts :
          fn = [op |-> "vocabulary", vocab |-> v, newWordCount |-> n]

AnalyzePatterns ==
    /\ fn.op = "vocabulary"
    /\ fn' = [op |-> "patterns", vocab |-> fn.vocab,
              patterns |-> analyzePhoneticPatterns(fn.vocab)]
    /\ UNCHANGED batchVars

ShouldReconstruct ==
    /\ fn.op = "vocabulary"
    /\ fn' = [op |-> "recommendation", vocab |-> fn.vocab,
              newWordCount |-> fn.newWordCount,
              recommendation |->
                  shouldReconstructDictionary(fn.vocab, fn.newWordCount)]
    /\ UNCHANGED batchVars

PatternNext == AnalyzePatterns \/ ShouldReconstruct

PatternSpec == PatternInit /\ [][PatternNext]_vars

\* ------------------------------------- the value of reconstructDictionary
\* changes.slice(0, 20) (line 1369)
ChangesShown == 20

\* what processWord leaves in tempLanguage.vocabulary for one word: nothing
\* when it caught an error, else an entry with the old or with another form
RedoOutcomes == {"fail", "same", "respelled"}

NewEntry(originalEntry, redone) ==
    CASE redone = "fail" -> <<>>
      [] redone = "same" -> <<originalEntry>>
      [] OTHER -> <<PatternEntry(originalEntry.english, originalEntry.english)>>

\* a test that takes every reprocessed word for a changed one
IsChangeAlways(originalEntry, newEntry) == newEntry # <<>>

\* the test of line 1344
IsChange(originalEntry, newEntry) ==
    /\ newEntry # <<>>
    /\ originalEntry.sigment # newEntry[1].sigment

\* the loop of lines 1340-1357 from word n on: acc holds tempLanguage's
\* vocabulary, the changes and the counter reconstructed
RECURSIVE ReprocessFrom(_, _, _, _)
ReprocessFrom(acc, original, redo, n) ==
    IF n > Len(original) THEN acc
    ELSE LET originalEntry == original[n]
             newEntry == NewEntry(originalEntry, redo[n])
             next ==
                 [vocabulary |-> acc.vocabulary \o newEntry,
                  changes |->
                      IF IsChange(originalEntry, newEntry)
                      THEN Append(acc.changes,
                                  [english |-> originalEntry.english,
                                   old |-> originalEntry.sigment,
                                   new |-> newEntry[1].sigment])
                      ELSE acc.changes,
                  reconstructed |-> acc.reconstructed + 1]
         IN  ReprocessFrom(next, original, redo, n + 1)

Min(a, b) == IF a < b THEN a ELSE b

\* reconstructDictionary (lines 1313-1377): the vocabulary it leaves and the
\* object it returns; beforeConsistency is options.beforeConsistency, 0
\* when not given
reconstructDictionary(original, redo, beforeConsistency) ==
    LET done == ReprocessFrom([vocabulary |-> <<>>, changes |-> <<>>,
                               reconstructed |-> 0], original, redo, 1)
        newPatterns == analyzePhoneticPatterns(done.vocabulary)
        minus == [num |-> 0 - beforeConsistency.num,
                  den |-> beforeConsistency.den]
    IN  [vocabulary |-> IF done.reconstructed > 0 THEN done.vocabulary
                        ELSE original,
         success |-> TRUE,
         reconstructedWords |-> done.reconstructed,
         changedWords |-> Len(done.changes),
         changes |-> SubSeq(done.changes, 1, Min(ChangesShown, Len(done.changes))),
         totalChanges |-> Len(done.changes),
         consistencyImprovement |->
             [before |-> beforeConsistency,
              after |-> newPatterns.consistencyScore,
              improvement |-> FractionSum(newPatterns.consistencyScore, minus)]]

\* the vocabularies, the outcomes of the reprocessing and the recorded
\* scores the function is studied on
RedoVocabularies == { v \in PatternVocabularies : Len(v) <= 2 }
RecordedScores == {0, 65}

RedoInit ==
    /\ InitialState
    /\ \E v \in RedoVocabularies, s \in RecordedScores :
          \E redo \in [1..Len(v) -> RedoOutcomes] :
             fn = [op |-> "reconstruct", vocab |-> v, redo |-> redo,
                   beforeConsistency |-> Whole(s)]

ReconstructDictionary ==
    /\ fn.op = "reconstruct"
    /\ fn' = [op |-> "reconstructed", vocab |-> fn.vocab, redo |-> fn.redo,
              beforeConsistency |-> fn.beforeConsistency,
              result |-> reconstructDictionary(fn.vocab, fn.redo,
                                               fn.beforeConsistency)]
    /\ UNCHANGED batchVars

RedoNext == ReconstructDictionary

RedoSpec == RedoInit /\ [][RedoNext]_vars

\* --------------------------------------- the constructed-to-source table
\* source words and constructed forms of the studied vocabularies; two
\* forms for three words, so that words collide on a form
TableWords == {"a", "b", "c"}
TableForms == {"x", "y"}

\* Map.prototype.set on a Map kept as the sequence of its entries in
\* insertion order: an existing key keeps its place
RECURSIVE MapSet(_, _, _)
MapSet(map, key, value) ==
    IF map = <<>> THEN <<[key |-> key, value |-> value]>>
    ELSE IF Head(map).key = key
         THEN <<[key |-> key, value |-> value]>> \o Tail(map)
         ELSE <<Head(map)>> \o MapSet(Tail(map), key, value)

\* a table entry that names the constructed form where the source word
\* belongs
SigmentToEnglishEntryForm(englishWord, entry) == [english |-> entry.sigment]

\* the object stored under entry.sigment (lines 537-546); of its fields
\* only english is kept
SigmentToEnglishEntry(englishWord, entry) == [english |-> englishWord]

\* dictionary[key] = value on a plain object
Assign(dictionary, key, value) ==
    [k \in DOMAIN dictionary \cup {key} |->
        IF k = key THEN value ELSE dictionary[k]]

\* the loop of createSigmentToEnglishDictionary over the first n entries
RECURSIVE SigmentToEnglishLoop(_, _)
SigmentToEnglishLoop(map, n) ==
    IF n = 0 THEN <<>>
    ELSE Assign(SigmentToEnglishLoop(map, n - 1), map[n].value.sigment,
                SigmentToEnglishEntry(map[n].key, map[n].value))

createSigmentToEnglishDictionary(map) ==
    LET dictionary == SigmentToEnglishLoop(map, Len(map))
    IN  [entries |-> Cardinality(DOMAIN dictionary), dictionary |-> dictionary]

TableInit ==
    /\ InitialState
    /\ fn = [op |-> "adds", vocabulary |-> <<>>,
             table |-> createSigmentToEnglishDictionary(<<>>)]

\* processWord on the language (lines 430-444): the entry is stored under
\* the source word
TableProcessWord(englishWord, sigment) ==
    /\ fn.op \in {"adds", "table"}
    /\ fn' = [fn EXCEPT !.op = "adds",
                        !.vocabulary = MapSet(fn.vocabulary, englishWord,
                                              PatternEntry(englishWord, sigment))]
    /\ UNCHANGED batchVars

\* generateDictionaries (line 502): the table is built from the vocabulary
CreateSigmentToEnglishDictionary ==
    /\ fn.op \in {"adds", "table"}
    /\ fn' = [fn EXCEPT !.op = "table",
                        !.table = createSigmentToEnglishDictionary(fn.vocabulary)]
    /\ UNCHANGED batchVars

TableNext ==
    \/ \E w \in TableWords, f \in TableForms : TableProcessWord(w, f)
    \/ CreateSigmentToEnglishDictionary

TableSpec == TableInit /\ [][TableNext]_vars

\* ------------------------------------- decomposition and transformation
\* a word is the sequence of its characters
MaxWordLen == 4
MapperChars == {"a", "e", "B", "d", "f", "-"}
\* a word that is a suffix and nothing else
AffixWords == { <<"-", "f", "u", "l">> }
MapperWords ==
    UNION { [1..n -> MapperChars] : n \in 1..MaxWordLen } \cup AffixWords
Styles ==
    {"default", "consonant_shift", "vowel_harmony", "morpheme_emphasis",
     "phonetic_logic"}

\* morphemePatterns (etymological-analyzer.js, lines 5 and 6), in order
Prefixes ==
    << <<"u","n","-">>, <<"r","e","-">>, <<"p","r","e","-">>,
       <<"d","i","s","-">>, <<"m","i","s","-">>, <<"o","v","e","r","-">>,
       <<"u","n","d","e","r","-">>, <<"o","u","t","-">>, <<"u","p","-">>,
       <<"a","n","t","i","-">>, <<"d","e","-">>, <<"n","o","n","-">> >>
Suffixes ==
    << <<"-","i","n","g">>, <<"-","e","d">>, <<"-","e","r">>,
       <<"-","e","s","t">>, <<"-","l","y">>, <<"-","t","i","o","n">>,
       <<"-","s","i","o","n">>, <<"-","n","e","s","s">>,
       <<"-","m","e","n","t">>, <<"-","f","u","l">>, <<"-","l","e","s","s">>,
       <<"-","a","b","l","e">>, <<"-","i","b","l","e">> >>

\* String.prototype.toLowerCase, startsWith, endsWith, substring, indexOf
LowerCase(word) == [k \in 1..Len(word) |-> toLowerCase(word[k])]
startsWith(word, p) ==
    Len(p) <= Len(word) /\ SubSeq(word, 1, Len(p)) = p
endsWith(word, p) ==
    Len(p) <= Len(word) /\ SubSeq(word, Len(word) - Len(p) + 1, Len(word)) = p
substring(word, from, to) == SubSeq(word, from + 1, to)
Occurrences(word, value, fromIndex) ==
    { k \in fromIndex..(Len(word) - Len(value)) :
        SubSeq(word, k + 1, k + Len(value)) = value }
indexOf(word, value, fromIndex) ==
    LET found == Occurrences(word, value, fromIndex)
    IN  IF found = {} THEN 0 - 1
        ELSE CHOOSE k \in found : \A j \in found : k <= j

\* the first of the entries of a list whose places are hits, as a list of
\* at most one element (for ... if ... break)
FirstOf(list, hits) ==
    IF hits = {} THEN <<>>
    ELSE <<list[CHOOSE k \in hits : \A j \in hits : k <= j]>>

\* decomposeMorphemes (etymological-analyzer.js, lines 30-57)
decomposeMorphemes(word) ==
    LET lowered == LowerCase(word)
        prefix == FirstOf(Prefixes, { k \in 1..Len(Prefixes) :
                                         startsWith(lowered, Prefixes[k]) })
        afterPrefix ==
            IF prefix = <<>> THEN lowered
            ELSE substring(lowered, Len(prefix[1]), Len(lowered))
        suffix == FirstOf(Suffixes, { k \in 1..Len(Suffixes) :
                                         endsWith(afterPrefix, Suffixes[k]) })
        remaining ==
            IF suffix = <<>> THEN afterPrefix
            ELSE substring(afterPrefix, 0, Len(afterPrefix) - Len(suffix[1]))
    IN  (IF prefix = <<>> THEN <<>>
         ELSE <<[type |-> "prefix", value |-> prefix[1]]>>)
        \o (IF suffix = <<>> THEN <<>>
            ELSE <<[type |-> "suffix", value |-> suffix[1]]>>)
        \o (IF remaining = <<>> THEN <<>>
            ELSE <<[type |-> "root", value |-> remaining]>>)

\* calculateSemanticWeight (lines 166-171), in tenths
SemanticWeight(morpheme) ==
    CASE morpheme.type = "root" -> 10
      [] morpheme.type = "prefix" -> 6
      [] morpheme.type = "suffix" -> 4
      [] OTHER -> 3

\* shiftRules of applyConsonantShift (lines 92-96)
ShiftLetters == {"b", "p", "d", "t", "g", "k", "v", "f", "z", "s", "j", "w"}
shiftRules(c) ==
    CASE c = "b" -> "p" [] c = "p" -> "b" [] c = "d" -> "t" [] c = "t" -> "d"
      [] c = "g" -> "k" [] c = "k" -> "g" [] c = "v" -> "f" [] c = "f" -> "v"
      [] c = "z" -> "s" [] c = "s" -> "z" [] c = "j" -> "y" [] c = "w" -> "v"

\* isInRootMorpheme (lines 417-430); position counts from 0
isInRootMorpheme(position, word, morphemes) ==
    \E k \in 1..Len(morphemes) :
        /\ morphemes[k].type = "root"
        /\ LET start == indexOf(word, morphemes[k].value, 0)
               end == start + Len(morphemes[k].value)
           IN  position >= start /\ position < end

\* applyConsonantShift (lines 91-113)
applyConsonantShift(word, morphemes) ==
    [k \in 1..Len(word) |->
        IF word[k] \in ShiftLetters /\ isInRootMorpheme(k - 1, word, morphemes)
        THEN shiftRules(word[k])
        ELSE word[k]]

\* applyVowelHarmony (lines 115-147): the results Math.random allows
HarmonyFront == {"e", "i"}
HarmonyBack == {"a", "o", "u"}
CountIn(word, set) == Cardinality({ k \in 1..Len(word) : word[k] \in set })
\* a harmony that takes front for the dominant class on a tie
applyVowelHarmonyTieFront(word) ==
    LET front == CountIn(word, HarmonyFront) >= CountIn(word, HarmonyBack)
        Choices(c) ==
            IF front /\ c \in HarmonyBack THEN HarmonyFront
            ELSE IF ~front /\ c \in HarmonyFront THEN HarmonyBack
                 ELSE {c}
    IN  { r \in [1..Len(word) -> Range(word) \cup HarmonyFront \cup HarmonyBack] :
            \A k \in 1..Len(word) : r[k] \in Choices(word[k]) }

applyVowelHarmony(word) ==
    LET dominantClass ==
            IF CountIn(word, HarmonyFront) > CountIn(word, HarmonyBack)
            THEN "front" ELSE "back"
        Choices(c) ==
            IF dominantClass = "front" /\ c \in HarmonyBack THEN HarmonyFront
            ELSE IF dominantClass = "back" /\ c \in HarmonyFront
                 THEN HarmonyBack
                 ELSE {c}
    IN  { r \in [1..Len(word) -> Range(word) \cup HarmonyFront \cup HarmonyBack] :
            \A k \in 1..Len(word) : r[k] \in Choices(word[k]) }

\* addRootEmphasis (lines 450-456)
addRootEmphasis(morpheme) ==
    IF Len(morpheme) > 3
    THEN LET mid == Len(morpheme) \div 2
         IN  substring(morpheme, 0, mid) \o <<morpheme[mid + 1]>>
                \o substring(morpheme, mid, Len(morpheme))
    ELSE morpheme

\* applyMorphemeEmphasis (lines 149-168): the loop from morpheme k on
RECURSIVE EmphasisLoop(_, _, _, _)
EmphasisLoop(text, offset, morphemes, k) ==
    IF k > Len(morphemes) THEN text
    ELSE LET value == morphemes[k].value
             start == indexOf(text, value, offset)
         IN  IF morphemes[k].type = "root" /\ start # 0 - 1
             THEN LET emphasized ==
                          addRootEmphasis(substring(text, start,
                                                    start + Len(value)))
                  IN  EmphasisLoop(
                          substring(text, 0, start) \o emphasized
                             \o substring(text, start + Len(value), Len(text)),
                          start + Len(emphasized), morphemes, k + 1)
             ELSE EmphasisLoop(text, offset, morphemes, k + 1)

applyMorphemeEmphasis(word, morphemes) == EmphasisLoop(word, 0, morphemes, 1)

\* the length of the run of equal characters a word begins / ends with
RunLength(word) ==
    CHOOSE n \in 1..Len(word) :
        /\ \A k \in 1..n : word[k] = word[1]
        /\ n < Len(word) => word[n + 1] # word[1]
EndRunLength(word) ==
    CHOOSE n \in 1..Len(word) :
        /\ \A k \in 1..n : word[Len(word) + 1 - k] = word[Len(word)]
        /\ n < Len(word) => word[Len(word) - n] # word[Len(word)]

\* replace(/(.)\1{n,}/g, '$1$1'): every run of more than n equal characters
\* becomes two of them (the characters studied are no line terminators)
RECURSIVE ShortenRuns(_, _)
ShortenRuns(word, n) ==
    IF word = <<>> THEN <<>>
    ELSE LET run == RunLength(word)
         IN  (IF run > n THEN <<word[1], word[1]>> ELSE SubSeq(word, 1, run))
             \o ShortenRuns(SubSeq(word, run + 1, Len(word)), n)

\* handleConsonantClusters (lines 235-246): each cluster is replaced by
\* config.transforms[0], which is the cluster itself for all seven
handleConsonantClusters(word) == word

\* applySyllableRules (lines 488-490): two vowels are replaced by '$1$2'
applySyllableRules(word) == word

\* maintainPhoneticIntegrity (lines 492-494)
maintainPhoneticIntegrity(word) == ShortenRuns(word, 2)

\* applyPhoneticLogic (lines 170-178)
applyPhoneticLogic(word) ==
    maintainPhoneticIntegrity(applySyllableRules(handleConsonantClusters(word)))

\* applyMildConsonantShift (lines 458-468)
RECURSIVE applyMildConsonantShift(_)
applyMildConsonantShift(word) ==
    IF word = <<>> THEN <<>>
    ELSE (CASE word[1] = "c" -> <<"k">>
            [] word[1] = "k" -> <<"c">>
            [] word[1] = "f" -> <<"p", "h">>
            [] OTHER -> <<word[1]>>)
         \o applyMildConsonantShift(Tail(word))

\* applyVowelVariation (lines 470-486): the results Math.random allows
RECURSIVE applyVowelVariation(_)
applyVowelVariation(word) ==
    IF word = <<>> THEN {<<>>}
    ELSE LET heads == IF word[1] \in VowelKeys
                      THEN {<<word[1]>>, <<word[1], word[1]>>}
                      ELSE {<<word[1]>>}
         IN  { h \o t : h \in heads, t \in applyVowelVariation(Tail(word)) }

\* calculateOverallSemanticWeight (lines 432-441) and the two thresholds of
\* applyDefaultTransformation (lines 180-195): Math.min(1.0, weight * 0.5)
\* exceeds 0.3 (0.6) exactly when the sum of the weights, in tenths,
\* exceeds 6 (12) times their number
RECURSIVE WeightSum(_)
WeightSum(morphemes) ==
    IF morphemes = <<>> THEN 0
    ELSE SemanticWeight(Head(morphemes)) + WeightSum(Tail(morphemes))
MildShiftAbove == 6
VowelVariationAbove == 12
applyDefaultTransformation(word, morphemes) ==
    LET mild == IF WeightSum(morphemes) > MildShiftAbove * Len(morphemes)
                THEN applyMildConsonantShift(word)
                ELSE word
    IN  IF WeightSum(morphemes) > VowelVariationAbove * Len(morphemes)
        THEN applyVowelVariation(mild)
        ELSE {mild}

\* applySystematicTransformations (lines 68-89): the possible results
applySystematicTransformations(word, morphemes, style) ==
    CASE style = "consonant_shift" -> {applyConsonantShift(word, morphemes)}
      [] style = "vowel_harmony" -> applyVowelHarmony(word)
      [] style = "morpheme_emphasis" -> {applyMorphemeEmphasis(word, morphemes)}
      [] style = "phonetic_logic" -> {applyPhoneticLogic(word)}
      [] OTHER -> applyDefaultTransformation(word, morphemes)

\* applyMorphemeBasedRules (lines 197-223): transformPrefix, transformSuffix
\* and transformRoot all return the word they are given
applyMorphemeBasedRules(word, morphemes, style) == word

\* a post-processing that also drops a word of one repeated character
applyPhoneticConsistencyDropping(word) ==
    IF RunLength(word) = Len(word) THEN <<>> ELSE word

\* applyPhoneticConsistency (lines 225-233)
applyPhoneticConsistency(word) ==
    LET first == ShortenRuns(word, 3)
        second == IF first # <<>> /\ RunLength(first) > 1
                  THEN SubSeq(first, RunLength(first), Len(first))
                  ELSE first
    IN  IF second # <<>> /\ EndRunLength(second) > 1
        THEN SubSeq(second, 1, Len(second) - EndRunLength(second) + 1)
        ELSE second

MapperInit ==
    /\ InitialState
    /\ \E w \in MapperWords, style \in Styles :
          fn = [op |-> "word", word |-> w, style |-> style]

\* analyzeWord (etymological-analyzer.js, lines 13-28): the morphemes
AnalyzeWord ==
    /\ fn.op = "word"
    /\ fn' = [op |-> "analysis", word |-> fn.word, style |-> fn.style,
              morphemes |-> decomposeMorphemes(fn.word)]
    /\ UNCHANGED batchVars

\* transformWord (lines 57-66); lowered and systematic are the values of
\* transformed after the first and the second assignment
TransformWord ==
    /\ fn.op = "analysis"
    /\ LET lowered == LowerCase(fn.word)
       IN  \E systematic \in applySystematicTransformations(lowered,
                                                  fn.morphemes, fn.style) :
              fn' = [op |-> "sigment", word |-> fn.word, style |-> fn.style,
                     morphemes |-> fn.morphemes, lowered |-> lowered,
                     systematic |-> systematic,
                     sigment |-> applyPhoneticConsistency(
                                     applyMorphemeBasedRules(systematic,
                                                  fn.morphemes, fn.style))]
    /\ UNCHANGED batchVars

MapperNext == AnalyzeWord \/ TransformWord

MapperSpec == MapperInit /\ [][MapperNext]_vars

\* ------------------------------------------------- the enrichment service
\* what a request to the service ends in: a rejected request, the axios
\* timeout of 30 s, a body whose response field is no string, a text without
\* any recognised "KEY: value" line, a text with such lines
Answers == {"failure", "timeout", "notText", "unparsable", "parsed"}
BadAnswers == {"failure", "timeout", "notText", "unparsable"}

\* the words processWord is studied on, and the number of its calls
EnrichWords == { <<"d", "e", "-", "d">>, <<"B", "a">> }
MaxEnrichCalls == 2

\* a function that returns and a function that throws
Return(v) == [threw |-> FALSE, value |-> v]
Throw == [threw |-> TRUE, value |-> <<>>]

\* makeRequest (ollama-client.js, lines 175-195)
makeRequest(answer) ==
    IF answer \in {"failure", "timeout"} THEN Throw ELSE Return(answer)

\* the object parseEtymologyResponse starts from (lines 198-205) and the one
\* it builds from recognised lines; '' is the empty text
EtymologyTemplate ==
    [origin |-> "unknown", root |-> <<>>, development |-> "",
     relatedWords |-> <<>>, morphemes |-> <<>>, periods |-> <<>>]
ParsedEtymology ==
    [origin |-> "Latin", root |-> <<"r">>, development |-> "from the service",
     relatedWords |-> <<"related">>, morphemes |-> <<>>,
     periods |-> <<"medieval">>]

\* parseEtymologyResponse (lines 197-258)
parseEtymologyResponse(response) ==
    IF response = "parsed" THEN ParsedEtymology ELSE EtymologyTemplate

\* getDefaultEtymology (lines 431-440)
getDefaultEtymology(word) ==
    [origin |-> "unknown", root |-> word,
     development |-> "etymology unavailable", relatedWords |-> <<>>,
     morphemes |-> <<[morpheme |-> word, meaning |-> "unknown"]>>,
     periods |-> <<"modern">>]

\* a definition text built from the word: `Definition of ${word}` followed
\* by a fixed text
DefinitionOf(word, text) == [definitionOf |-> word, text |-> text]

\* the object parseDefinitionResponse starts from (lines 261-267) and the
\* one it builds from recognised lines
DefinitionsTemplate ==
    [primary |-> <<>>, secondary |-> <<>>, technical |-> <<>>,
     partOfSpeech |-> <<>>, examples |-> <<>>]
ParsedDefinitions ==
    [primary |-> <<DefinitionOf(<<>>, "from the service")>>,
     secondary |-> <<>>, technical |-> <<>>, partOfSpeech |-> <<"noun">>,
     examples |-> <<>>]

\* parseDefinitionResponse (lines 260-301): response.split throws on a value
\* that is no string, inside the function's own try
parseDefinitionResponse(response) ==
    IF response = "parsed" THEN ParsedDefinitions ELSE DefinitionsTemplate

\* getDefaultDefinitions (lines 442-450)
getDefaultDefinitions(word) ==
    [primary |-> <<DefinitionOf(word, " unavailable")>>, secondary |-> <<>>,
     technical |-> <<>>, partOfSpeech |-> <<"unknown">>, examples |-> <<>>]

\* this.cache of the client: has, get and cacheResult (lines 471-477; the
\* cache stays far below maxCacheSize, nothing is evicted)
CacheHas(cache, key) == key \in DOMAIN cache
cacheResult(cache, key, value) ==
    [k \in DOMAIN cache \cup {key} |-> IF k = key THEN value ELSE cache[k]]

\* OllamaClient.getEtymology (lines 21-39): the value it returns, the cache
\* it leaves and what became of the request
clientGetEtymology(cache, word, answer) ==
    LET cacheKey == <<"etymology", word>>
        response == makeRequest(answer)
    IN  IF CacheHas(cache, cacheKey)
        THEN [result |-> Return(cache[cacheKey]), cache |-> cache,
              request |-> "cached"]
        ELSE IF response.threw
             THEN [result |-> Return(getDefaultEtymology(word)),
                   cache |-> cache, request |-> answer]
             ELSE LET etymology == parseEtymologyResponse(response.value)
                  IN  [result |-> Return(etymology),
                       cache |-> cacheResult(cache, cacheKey, etymology),
                       request |-> answer]

\* a getDefinitions that lets the error of the request through
getDefinitionsUncaught(cache, word, answer) ==
    LET cacheKey == <<"definitions", word>>
        response == makeRequest(answer)
    IN  IF CacheHas(cache, cacheKey)
        THEN [result |-> Return(cache[cacheKey]), cache |-> cache,
              request |-> "cached"]
        ELSE IF response.threw
             THEN [result |-> Throw, cache |-> cache, request |-> answer]
             ELSE LET definitions == parseDefinitionResponse(response.value)
                  IN  [result |-> Return(definitions),
                       cache |-> cacheResult(cache, cacheKey, definitions),
                       request |-> answer]

\* OllamaClient.getDefinitions (lines 41-59)
getDefinitions(cache, word, answer) ==
    LET cacheKey == <<"definitions", word>>
        response == makeRequest(answer)
    IN  IF CacheHas(cache, cacheKey)
        THEN [result |-> Return(cache[cacheKey]), cache |-> cache,
              request |-> "cached"]
        ELSE IF response.threw
             THEN [result |-> Return(getDefaultDefinitions(word)),
                   cache |-> cache, request |-> answer]
             ELSE LET definitions == parseDefinitionResponse(response.value)
                  IN  [result |-> Return(definitions),
                       cache |-> cacheResult(cache, cacheKey, definitions),
                       request |-> answer]

\* the object EtymologicalAnalyzer.getEtymology returns without the client
\* (etymological-analyzer.js, lines 90-95)
AnalyzerEtymology ==
    [origin |-> "unknown", historicalForms |-> <<>>, relatedWords |-> <<>>,
     meanings |-> <<"definition unavailable">>]

\* EtymologicalAnalyzer.getEtymology (lines 79-95)
analyzerGetEtymology(client, cache, word, answer) ==
    LET got == clientGetEtymology(cache, word, answer)
    IN  IF client /\ ~got.result.threw
        THEN [etymology |-> got.result.value, cache |-> got.cache,
              request |-> got.request]
        ELSE [etymology |-> AnalyzerEtymology,
              cache |-> IF client THEN got.cache ELSE cache,
              request |-> IF client THEN got.request ELSE "none"]

\* EtymologicalAnalyzer.analyzeWord (lines 13-28) with its etymologyCache
analyzeWord(client, cache, etymologyCache, word, answer) ==
    IF word \in DOMAIN etymologyCache
    THEN [analysis |-> etymologyCache[word], cache |-> cache,
          etymologyCache |-> etymologyCache, request |-> "cached"]
    ELSE LET got == analyzerGetEtymology(client, cache, word, answer)
             analysis == [word |-> word,
                          morphemes |-> decomposeMorphemes(word),
                          etymology |-> got.etymology]
         IN  [analysis |-> analysis, cache |-> got.cache,
              etymologyCache |-> cacheResult(etymologyCache, word, analysis),
              request |-> got.request]

\* transformWord (part_003, lines 57-66): the possible constructed words
transformWord(word, morphemes, style) ==
    { applyPhoneticConsistency(applyMorphemeBasedRules(t, morphemes, style)) :
        t \in applySystematicTransformations(LowerCase(word), morphemes, style) }

EnrichInit ==
    /\ InitialState
    /\ \E client \in BOOLEAN, style \in Styles :
          fn = [op |-> "language", client |-> client, style |-> style,
                vocabulary |-> <<>>, errors |-> <<>>, cache |-> <<>>,
                etymologyCache |-> <<>>, calls |-> 0,
                last |-> [word |-> <<>>, etymology |-> "none",
                          definitions |-> "none"]]

\* processWord (language-generator.js, lines 414-460) on a language of the
\* style fn.style; the two answers are those of the service, should it be
\* asked
ProcessWord(englishWord, etymologyAnswer, definitionsAnswer) ==
    /\ fn.op \in {"language", "processed"}
    /\ fn.calls < MaxEnrichCalls
    /\ LET analysed == analyzeWord(fn.client, fn.cache, fn.etymologyCache,
                                   englishWord, etymologyAnswer)
           etymology == analysed.analysis
           defined ==
               IF fn.client
               THEN getDefinitions(analysed.cache, englishWord, definitionsAnswer)
               ELSE [result |-> Return([primary |->
                                          <<DefinitionOf(englishWord, "")>>]),
                     cache |-> analysed.cache, request |-> "none"]
           last == [word |-> englishWord, etymology |-> analysed.request,
                    definitions |-> defined.request]
       IN  \E sigment \in transformWord(englishWord, etymology.morphemes,
                                         fn.style) :
              IF defined.result.threw
              THEN fn' = [fn EXCEPT
                            !.op = "processed",
                            !.errors = Append(fn.errors, englishWord),
                            !.cache = defined.cache,
                            !.etymologyCache = analysed.etymologyCache,
                            !.calls = fn.calls + 1,
                            !.last = last]
              ELSE fn' = [fn EXCEPT
                            !.op = "processed",
                            !.vocabulary =
                                MapSet(fn.vocabulary, englishWord,
                                       [english |-> englishWord,
                                        sigment |-> sigment,
                                        definitions |-> defined.result.value,
                                        etymology |-> etymology]),
                            !.cache = defined.cache,
                            !.etymologyCache = analysed.etymologyCache,
                            !.calls = fn.calls + 1,
                            !.last = last]
    /\ UNCHANGED batchVars

EnrichNext ==
    \E w \in EnrichWords, ea \in Answers, da \in Answers : ProcessWord(w, ea, da)

EnrichSpec == EnrichInit /\ [][EnrichNext]_vars

\* --------------------------------------------- plain-character pronunciation
\* the constructed words the pronunciation is studied on
MaxAsciiLen == 3
AsciiChars == {"n", "g", "h", "c", "x"}
AsciiWords == UNION { [1..n -> AsciiChars] : n \in 1..MaxAsciiLen }

\* asciiCombinations of getAsciiPhoneme (part_003, lines 291-301)
AsciiCombinationKeys ==
    { <<"t", "h">>, <<"c", "h">>, <<"s", "h">>, <<"p", "h">>, <<"g", "h">>,
      <<"c", "k">>, <<"n", "g">>, <<"q", "u">> }
asciiCombinations(twoChar) ==
    CASE twoChar = <<"p", "h">> -> <<"f">>
      [] twoChar = <<"g", "h">> -> <<"g">>
      [] twoChar = <<"c", "k">> -> <<"k">>
      [] twoChar = <<"q", "u">> -> <<"k", "w">>
      [] OTHER -> twoChar

\* asciiPhoneticMap[lowerChar] || lowerChar (lines 316-332)
asciiPhoneticMap(lowerChar) ==
    CASE lowerChar = "c" -> <<"k">>
      [] lowerChar = "x" -> <<"k", "s">>
      [] OTHER -> <<lowerChar>>

\* getAsciiPhoneme (lines 285-333): what it returns and the field _skipNext
\* it leaves; position counts from 0
getAsciiPhoneme(word, position, skipNext) ==
    LET lowerChar == toLowerCase(word[position + 1])
        twoChar == IF position + 2 <= Len(word)
                   THEN <<lowerChar, toLowerCase(word[position + 2])>>
                   ELSE <<lowerChar>>
    IN  IF twoChar \in AsciiCombinationKeys
        THEN [phoneme |-> asciiCombinations(twoChar), skipNext |-> TRUE]
        ELSE IF skipNext
             THEN [phoneme |-> <<>>, skipNext |-> FALSE]
             ELSE [phoneme |-> asciiPhoneticMap(lowerChar), skipNext |-> FALSE]

\* the loop of generateAsciiPronunciation (lines 261-271) over the first n
\* characters
RECURSIVE AsciiLoop(_, _, _)
AsciiLoop(word, n, skipNext) ==
    IF n = 0 THEN [pronunciation |-> <<>>, skipNext |-> skipNext]
    ELSE LET before == AsciiLoop(word, n - 1, skipNext)
             got == getAsciiPhoneme(word, n - 1, before.skipNext)
         IN  [pronunciation |-> before.pronunciation \o got.phoneme,
              skipNext |-> got.skipNext]

generateAsciiPronunciation(word, skipNext) == AsciiLoop(word, Len(word), skipNext)

AsciiInit ==
    /\ InitialState
    /\ \E w \in AsciiWords : fn = [op |-> "sigmentWord", word |-> w]

\* mapWordToSigment with options.asciiPronunciation (lines 45-50), on a
\* mapper whose _skipNext is not set
GenerateAsciiPronunciation ==
    /\ fn.op = "sigmentWord"
    /\ fn' = [op |-> "pronunciation", word |-> fn.word,
              pronunciation |->
                  generateAsciiPronunciation(fn.word, FALSE).pronunciation]
    /\ UNCHANGED batchVars

AsciiNext == GenerateAsciiPronunciation

AsciiSpec == AsciiInit /\ [][AsciiNext]_vars

\* ==================================================== overlapping batches
\* Two calls of processWordsBatch on one generator, each with its own
\* language and word list, the second made while the first is suspended at
\* an await.  this.batchState, the SIGINT listeners and the process are
\* shared (variables batchState, handlers, exited); what each call keeps in
\* local variables and in its own language is in fn.run.  No pause file is
\* created in this specification, so isPaused stays false.
OverlapRuns == {1, 2}

\* options.saveInterval of both calls
OverlapSaveInterval == 2

\* a call that was not made yet
NoRun == [pc |-> "none", wordList |-> <<>>, i |-> 0, processed |-> 0,
          savedAt |-> 0, vocabulary |-> {}, started |-> {},
          progress |-> <<>>, outcome |-> "none"]

\* the TypeError of reading a field of this.batchState when it is null
BatchStateError(s) == [s EXCEPT !.pc = "done", !.outcome = "error"]

\* saveBatchProgress up to its await (lines 370-381): the record is built
\* from this.batchState as it is at that moment
RunCheckpoint(s, bs, index) ==
    [currentIndex |-> index, totalWords |-> Len(s.wordList),
     processedWords |-> bs[1].processedWords,
     vocabularySize |-> Cardinality(s.vocabulary)]

\* the loop from its test to the next await (lines 265-284), for the call
\* with locals s while this.batchState is bs
Iterate(s, bs) ==
    IF s.i >= Len(s.wordList)
    THEN [run |-> [s EXCEPT !.pc = "finalSave"], batchState |-> bs]
    ELSE IF bs = <<>>
    THEN [run |-> BatchStateError(s), batchState |-> bs]
    ELSE IF bs[1].shouldStop
    THEN [run |-> [s EXCEPT !.pc = "stopSave",
                            !.progress = <<RunCheckpoint(s, bs, s.i)>>],
          batchState |-> bs]
    ELSE IF ShouldProcess(s.wordList[s.i + 1], bs[1].processedWords)
    THEN [run |-> [s EXCEPT !.pc = "inflight",
                            !.started = @ \cup {trim(s.wordList[s.i + 1])}],
          batchState |-> bs]
    ELSE LET moved == <<[bs[1] EXCEPT !.currentIndex = s.i + 1]>>
         IN  [run |-> [s EXCEPT !.pc = "delay"], batchState |-> moved]

\* the rest of the iteration after the try block (lines 297-309)
AfterTry(s, bs) ==
    IF bs = <<>>
    THEN [run |-> BatchStateError(s), batchState |-> bs]
    ELSE LET moved == <<[bs[1] EXCEPT !.currentIndex = s.i + 1]>>
         IN  IF SaveDue(s.processed, OverlapSaveInterval, s.savedAt)
             THEN [run |-> [s EXCEPT
                              !.pc = "saving",
                              !.progress =
                                 <<RunCheckpoint(s, moved, s.i + 1)>>],
                   batchState |-> moved]
             ELSE [run |-> [s EXCEPT !.pc = "delay"], batchState |-> moved]

OverlapInit ==
    /\ InitialState
    /\ fn = [op |-> "overlap", run |-> [r \in OverlapRuns |-> NoRun]]

OverlapUnchanged ==
    UNCHANGED <<intervals, latestActive, pollPc, pendingUnlink, diskVars,
                inMemory, vocabulary, errors, clock, callVars, reconResult,
                histVars>>

\* processWordsBatch from its call to its first await (lines 232-284)
StartBatch(r, L, allowPause) ==
    /\ Alive /\ fn.op = "overlap" /\ fn.run[r].pc = "none"
    /\ LET fresh == <<InitialBatchState(Len(L), <<>>)>>
           step  == Iterate([NoRun EXCEPT !.wordList = L], fresh)
       IN  /\ fn' = [fn EXCEPT !.run[r] = step.run]
           /\ batchState' = step.batchState
    /\ handlers' = IF allowPause THEN handlers + 1 ELSE handlers
    /\ UNCHANGED exited
    /\ OverlapUnchanged

\* processWord has returned (lines 284-297): ok tells whether it put the
\* entry into the language of the call or caught an error
RunWordDone(r, ok) ==
    /\ Alive /\ fn.op = "overlap" /\ fn.run[r].pc = "inflight"
    /\ LET s    == fn.run[r]
           word == trim(s.wordList[s.i + 1])
           put  == [s EXCEPT !.vocabulary =
                                IF ok THEN @ \cup {word} ELSE @]
           \* line 285 throws inside the try block when batchState is null
           counted == IF HasBatch
                      THEN [put EXCEPT !.processed = @ + 1] ELSE put
           added == IF HasBatch
                    THEN <<[BS EXCEPT !.processedWords = @ \cup {word}]>>
                    ELSE batchState
           step == AfterTry(counted, added)
       IN  /\ fn' = [fn EXCEPT !.run[r] = step.run]
           /\ batchState' = step.batchState
    /\ UNCHANGED <<exited, handlers>>
    /\ OverlapUnchanged

\* the incremental save has been written (lines 302-306)
RunSaveDone(r) ==
    /\ Alive /\ fn.op = "overlap" /\ fn.run[r].pc = "saving"
    /\ fn' = [fn EXCEPT !.run[r].savedAt = fn.run[r].processed,
                        !.run[r].pc = "delay"]
    /\ UNCHANGED <<exited, handlers, batchState>>
    /\ OverlapUnchanged

\* delay(10) is over: i++ and the next iteration (lines 309, 265)
RunDelayDone(r) ==
    /\ Alive /\ fn.op = "overlap" /\ fn.run[r].pc = "delay"
    /\ LET step == Iterate([fn.run[r] EXCEPT !.i = @ + 1], batchState)
       IN  /\ fn' = [fn EXCEPT !.run[r] = step.run]
           /\ batchState' = step.batchState
    /\ UNCHANGED <<exited, handlers>>
    /\ OverlapUnchanged

\* the saves of the graceful stop are written (lines 269-272)
RunStopDone(r) ==
    /\ Alive /\ fn.op = "overlap" /\ fn.run[r].pc = "stopSave"
    /\ fn' = [fn EXCEPT !.run[r].pc = "done", !.run[r].outcome = "stopped"]
    /\ UNCHANGED <<exited, handlers, batchState>>
    /\ OverlapUnchanged

\* the final dictionaries are written, cleanupBatchState (lines 313-319)
RunFinalDone(r) ==
    /\ Alive /\ fn.op = "overlap" /\ fn.run[r].pc = "finalSave"
    /\ fn' = [fn EXCEPT !.run[r].pc = "done",
                        !.run[r].outcome = "completed"]
    /\ batchState' = <<>>
    /\ UNCHANGED <<exited, handlers>>
    /\ OverlapUnchanged

\* SIGINT while a call is suspended: every registered listener runs
\* (lines 328-336); without a listener Node ends the process
RunInterrupt ==
    /\ Alive /\ fn.op = "overlap"
    /\ \E r \in OverlapRuns : fn.run[r].pc \notin {"none", "done"}
    /\ LET graceful == handlers = 1 /\ FirstHandlerStops
       IN  /\ exited' = ~graceful
           /\ batchState' = IF handlers >= 1 /\ FirstHandlerStops
                            THEN SetBS("shouldStop", TRUE) ELSE batchState
    /\ UNCHANGED <<handlers, fn>>
    /\ OverlapUnchanged

OverlapNext ==
    \/ \E r \in OverlapRuns, L \in InputLists, ap \in BOOLEAN :
          StartBatch(r, L, ap)
    \/ \E r \in OverlapRuns, ok \in BOOLEAN : RunWordDone(r, ok)
    \/ \E r \in OverlapRuns : RunSaveDone(r)
    \/ \E r \in OverlapRuns : RunDelayDone(r)
    \/ \E r \in OverlapRuns : RunStopDone(r)
    \/ \E r \in OverlapRuns : RunFinalDone(r)
    \/ RunInterrupt

OverlapSpec == OverlapInit /\ [][OverlapNext]_vars

\* ==================================== reconstruction of a styled language
\* A language of one style: words are added by processWord, then
\* reconstructDictionary re-processes the vocabulary.  The words of the
\* vocabulary went through processWord before (the mapper is the same code
\* and the requests of the enrichment are caught inside the client), so the
\* re-processing does not throw here.
MaxStyledWords == 2
MaxStyledPasses == 2

\* source words that reach the shifts, the affixes, the vowel classes and
\* the runs of a repeated character
StyledWords ==
    { <<"d">>, <<"e">>, <<"a","a">>, <<"d","d">>, <<"B","a","d">>,
      <<"f","f","f">>, <<"d","e","-","d">>, <<"-","f","u","l">>,
      <<"a","e","d","a">>, <<"a","-","e","d">> }

\* the entries processWord can put into a language of the given style for
\* one source word (language-generator.js 414-444)
ProcessedEntries(word, style) ==
    { [english |-> word, sigment |-> g] :
         g \in transformWord(word, decomposeMorphemes(word), style) }

\* a re-processing that takes the default style whatever the language has
ReprocessedEntriesDefault(entry, style) ==
    ProcessedEntries(entry.english, "default")

\* processWord(tempLanguage, englishWord) of reconstructDictionary (lines
\* 1323-1342): tempLanguage is a copy of the language and has its config
ReprocessedEntries(entry, style) ==
    ProcessedEntries(entry.english, style)

\* the vocabularies tempLanguage can hold after the loop of lines 1336-1357
Reprocessings(vocab, style) ==
    LET pool == UNION { ReprocessedEntries(vocab[n], style) :
                           n \in 1..Len(vocab) }
    IN  { redone \in [1..Len(vocab) -> pool] :
             \A n \in 1..Len(vocab) :
                redone[n] \in ReprocessedEntries(vocab[n], style) }

StyledInit ==
    /\ InitialState
    /\ \E style \in Styles :
          fn = [op |-> "styled", style |-> style, vocabulary |-> <<>>,
                batch |-> <<>>, previous |-> <<>>, passes |-> 0,
                changedWords |-> 0]

\* one word of a batch goes through processWord
StyledProcessWord(word) ==
    /\ fn.op = "styled" /\ fn.passes = 0
    /\ Len(fn.vocabulary) < MaxStyledWords
    /\ \A n \in 1..Len(fn.vocabulary) : fn.vocabulary[n].english # word
    /\ \E entry \in ProcessedEntries(word, fn.style) :
          fn' = [fn EXCEPT !.vocabulary = Append(@, entry),
                           !.batch = Append(@, entry)]
    /\ UNCHANGED batchVars

\* reconstructDictionary (lines 1313-1377) on the language
StyledReconstruct ==
    /\ fn.op = "styled" /\ fn.passes < MaxStyledPasses
    /\ fn.vocabulary # <<>>
    /\ \E redone \in Reprocessings(fn.vocabulary, fn.style) :
          fn' = [fn EXCEPT
                   !.previous = fn.vocabulary,
                   !.vocabulary = redone,
                   !.passes = @ + 1,
                   !.changedWords =
                       Cardinality({ n \in 1..Len(redone) :
                          fn.vocabulary[n].sigment # redone[n].sigment })]
    /\ UNCHANGED batchVars

StyledNext ==
    \/ \E word \in StyledWords : StyledProcessWord(word)
    \/ StyledReconstruct

StyledSpec == StyledInit /\ [][StyledNext]_vars

\* =================================================================== claims
\* the source words a newWords list names
WordsOf(L) == { trim(L[k]) : k \in 1..Len(L) } \ {""}

Terminated == pc = "idle" /\ outcome \in {"completed", "stopped"}

\* ------------------------------------------------------------------- C1
\* C1: when a batch that was stopped is resumed with the same list L and the
\* checkpoint it left, and no word fails, the resumed run hands to
\* processWord exactly the words of L that are neither in the checkpoint's
\* processedWords nor already in the vocabulary, and the final vocabulary
\* contains every word of L.
C1_ResumeProcessesTheRest ==
    ( /\ pc = "idle" /\ outcome = "completed"
      /\ hist.resumed /\ hist.ckptFrom = "stop" /\ hist.ckptList = newWords
      /\ hist.failures = 0 )
    => /\ Range(hist.started) = WordsOf(newWords) \ (hist.skipSet \cup hist.vocabAtCall)
       /\ WordsOf(newWords) \subseteq DOMAIN vocabulary

\* ------------------------------------------------------------------- C2
\* C2: when a batch run (here: one that did not itself start from a
\* checkpoint) ends in Completed and the removal started by the cleanup has
\* been carried out, no checkpoint file of the language exists.
C2_CompletedDiscardsCheckpoint ==
    ( /\ pc = "idle" /\ outcome = "completed"
      /\ ~hist.resumed /\ ~pendingUnlink /\ hist.failures = 0 )
    => progressFiles[languageName] = <<>>

\* ------------------------------------------------------------------- C3
\* C3: a run in which an interrupt requested the stop while a word was in
\* flight (at whatever position) does not end in Completed.
C3_InterruptedRunIsNotCompleted ==
    hist.stopInFlight # -1 => outcome # "completed"

\* ------------------------------------------------------------------- C6
\* C6: a failure of the checkpoint write or of the dictionary flush at a
\* save interval does not end the batch.
C6_IntervalSaveFailureNotFatal ==
    hist.abortAt # "interval"

\* ------------------------------------------------------------------- C9
\* C9: the incremental save runs only when the number of words the run has
\* inserted is a positive multiple of saveInterval.
C9_SaveAtInsertedMultiple ==
    pc = "saving" => (hist.inserted > 0 /\ hist.inserted % saveInterval = 0)

\* ------------------------------------------------------------------ C10
\* C10: when re-processing fails for every word, reconstructDictionary
\* leaves the original vocabulary in place.
C10_AllFailedKeepsOriginal ==
    [][ ( /\ recons' = recons + 1
          /\ reconResult'.failed = DOMAIN reconResult'.before )
        => vocabulary' = reconResult'.before ]_vars

C5_WordErrorIsCaughtAndSkipped ==
    /\ [][ ( /\ pc = "inflight" /\ pc' # "inflight"
             /\ hist'.failures = hist.failures + 1 )
           => /\ errors' = Append(errors,
                     [word |-> wordList[i + 1], error |-> "error",
                      timestamp |-> clock])
              /\ vocabulary' = vocabulary
              /\ wordList[i + 1] \notin DOMAIN vocabulary'
              /\ outcome' = "running"
              /\ pc' \in {"check", "saving"} ]_vars
    /\ [] ( pc = "finalSave"
              => \A k \in (hist.startIndex + 1)..Len(wordList) :
                    wordList[k] \in BS.processedWords )

\* a completed batch whose first word failed and whose second was inserted
C5_Witness ==
    /\ pc = "idle" /\ outcome = "completed" /\ ~hist.resumed
    /\ Len(wordList) >= 2
    /\ hist.failures = 1 /\ Len(errors) = 1
    /\ errors[1].word = wordList[1]
    /\ wordList[1] \notin DOMAIN vocabulary
    /\ wordList[2] \in DOMAIN vocabulary

\* ------------------------------------------------------------------- C7
\* C7: when the pause flag is raised while the word at index k is in flight,
\* the words between the starting index and k have been handled (and, in a
\* run that started at the head of the list with no word failing, are in the
\* vocabulary), the word in flight is not disturbed, the loop then waits in
\* Paused, and no word is started while the flag is up.
C7_PauseAtWordBoundary ==
    /\ [] ( pc = "inflight"
              => /\ BS.currentIndex = i
                 /\ \A k \in (hist.startIndex + 1)..i :
                       wordList[k] \in BS.processedWords )
    /\ [] ( (pc \in {"inflight", "paused"} /\ ~hist.resumed /\ hist.failures = 0)
              => \A k \in 1..i : wordList[k] \in DOMAIN vocabulary )
    /\ [][ (pc = "inflight" /\ HasBatch' /\ BS'.isPaused # BS.isPaused)
           => (pc' = pc /\ i' = i /\ vocabulary' = vocabulary
               /\ processed' = processed) ]_vars
    /\ [][ ( /\ pc = "check" /\ pc' # "check" /\ ~exited'
             /\ i < Len(wordList) /\ BS.isPaused /\ ~BS.shouldStop )
           => pc' = "paused" ]_vars
    /\ [][ (pc' = "inflight" /\ pc # "inflight") => ~BS.isPaused ]_vars

\* the flag went up while the second word was in flight; the first two words
\* are in the vocabulary and the loop waits before the third
C7_Witness ==
    /\ pc = "paused" /\ BS.isPaused /\ ~hist.resumed
    /\ i = 2 /\ hist.pausedInFlight = 1
    /\ Len(wordList) = 3
    /\ {wordList[1], wordList[2]} \subseteq DOMAIN vocabulary
    /\ wordList[3] \notin BS.processedWords

\* ------------------------------------------------------------------- C8
\* C8: the batch does not stay in Paused for ever once the pause file has
\* stopped existing: again and again the file exists or the batch is not
\* waiting in Paused.
C8_PausedEventuallyResumes ==
    []<>(pauseFile \/ pc # "paused")

RECURSIVE FirstOccurrences(_)
FirstOccurrences(s) ==
    IF s = <<>> THEN <<>>
    ELSE LET rest == FirstOccurrences(SubSeq(s, 1, Len(s) - 1))
             last == s[Len(s)]
         IN  IF last \in Range(rest) THEN rest ELSE Append(rest, last)

\* C17: within a run words are processed one after another in list order.
\* A word is started only from the top of the loop or from the pause loop
\* (never while a save or a flush is pending or another word is in flight),
\* it is the word at the current index, every index below it has been
\* passed, the index moves on by one when the word returns and never moves
\* back, and the words started so far are the first occurrences of the
\* list's prefix, in order.
C17_OneWordAtATimeInOrder ==
    /\ [][ (pc' = "inflight" /\ pc # "inflight")
           => /\ pc \in {"check", "paused"}
              /\ i < Len(wordList) /\ i' = i
              /\ BS.currentIndex <= i /\ BS'.currentIndex <= i
              /\ hist'.started = Append(hist.started, wordList[i + 1]) ]_vars
    /\ [][ (pc = "inflight" /\ pc' # "inflight" /\ ~exited' /\ procs' = procs)
           => /\ BS'.currentIndex = i + 1
              /\ pc' \in {"check", "saving"}
              /\ hist'.started = hist.started ]_vars
    /\ [][ (pc # "idle" /\ pc' # "idle") => i' \in {i, i + 1} ]_vars
    /\ [][ ((pc = "saving" \/ pc = "stopSave" \/ pc = "finalSave")
             /\ procs' = procs)
           => (pc' # "inflight" /\ hist'.started = hist.started) ]_vars
    /\ [] ( (pc # "idle" /\ ~hist.resumed)
              => hist.started
                   = FirstOccurrences(SubSeq(wordList, 1,
                        IF pc = "inflight" THEN i + 1 ELSE BS.currentIndex)) )

\* the third word of the list is in flight after the first two were started
\* in order and an incremental save ran between the second and the third
C17_Witness ==
    /\ pc = "inflight" /\ i = 2 /\ ~hist.resumed
    /\ Len(wordList) = 3 /\ hist.started = wordList
    /\ savedAt = 2 /\ BS.currentIndex = 2

\* ------------------------------------------------------------------ C20
\* C20: when a call has returned, addedCount is the number of entries the
\* call put into the vocabulary, and addedCount + skippedCount is the number
\* of input words.
C20_AddedCountIsInserted ==
    (pc = "idle" /\ outcome \in {"completed", "stopped", "noNewWords"})
    => /\ result.addedCount = hist.inserted
       /\ result.addedCount + result.skippedCount = Len(newWords)

\* ------------------------------------------------------------------ C12
\* the distinct source vowels and consonants a vocabulary shows, the number
\* of times source letter c is seen with target t, and with any target
SourceLetters(vocab) ==
    UNION { { toLowerCase(vocab[n].english[k]) : k \in 1..Len(vocab[n].english) } :
            n \in 1..Len(vocab) }
    \cap (VowelKeys \cup ConsonantKeys)
Seen(vocab, c, t) ==
    Cardinality({ o \in Observations(vocab) :
                    EnglishChar(vocab, o) = c /\ SigmentChar(vocab, o) = t })
SeenTotal(vocab, c) ==
    Cardinality({ o \in Observations(vocab) : EnglishChar(vocab, o) = c })
MostFrequent(vocab, c) ==
    CHOOSE m \in 1..SeenTotal(vocab, c) :
        /\ \E o \in Observations(vocab) : Seen(vocab, c, SigmentChar(vocab, o)) = m
        /\ \A o \in Observations(vocab) : Seen(vocab, c, SigmentChar(vocab, o)) <= m

RECURSIVE ProductOfTotals(_, _)
ProductOfTotals(vocab, C) ==
    IF C = {} THEN 1
    ELSE LET c == CHOOSE x \in C : TRUE
         IN  SeenTotal(vocab, c) * ProductOfTotals(vocab, C \ {c})

\* the sum over c in C of 100 * max(c) / total(c), times the product of the
\* totals of all letters in All
RECURSIVE ScaledSum(_, _, _)
ScaledSum(vocab, C, All) ==
    IF C = {} THEN 0
    ELSE LET c == CHOOSE x \in C : TRUE
         IN  100 * MostFrequent(vocab, c) * ProductOfTotals(vocab, All \ {c})
             + ScaledSum(vocab, C \ {c}, All)

\* C12: the consistency score lies in [0,100]; it is the mean over the
\* distinct source vowels and consonants seen of 100 * (count of the most
\* frequent target) / (number of times the letter is seen); it is 0 for the
\* empty vocabulary.
C12_ScoreIsMeanWithinBounds ==
    fn.op = "patterns"
    => LET score == fn.patterns.consistencyScore
           K == SourceLetters(fn.vocab)
       IN  /\ score.den > 0
           /\ 0 <= score.num /\ score.num <= 100 * score.den
           /\ fn.vocab = <<>> => score.num = 0
           /\ K = {} => score.num = 0
           /\ K # {} =>
                 score.num * Cardinality(K) * ProductOfTotals(fn.vocab, K)
                    = score.den * ScaledSum(fn.vocab, K, K)

\* bad -> pat and dab -> tep: a has two targets, b and d one each, the
\* score is 250/3
C12_Witness ==
    /\ fn.op = "patterns" /\ Len(fn.vocab) = 2
    /\ SourceLetters(fn.vocab) = {"a", "b", "d"}
    /\ fn.patterns.consistencyScore = [num |-> 250, den |-> 3]

\* ------------------------------------------------------------------ C18
\* the targets a source letter is seen with
TargetsOf(vocab, c) ==
    { SigmentChar(vocab, o) :
        o \in { x \in Observations(vocab) : EnglishChar(vocab, x) = c } }

Conflicted(vocab, c) ==
    \/ c \in VowelKeys /\ Cardinality(TargetsOf(vocab, c)) > 3
    \/ c \in ConsonantKeys /\ Cardinality(TargetsOf(vocab, c)) > 2

\* the four triggers, read off the vocabulary and the new-word count
TriggersHeld(vocab, n) ==
    LET K == SourceLetters(vocab)
    IN  ( IF K = {} \/ ScaledSum(vocab, K, K)
                         < 70 * Cardinality(K) * ProductOfTotals(vocab, K)
          THEN {"lowConsistency"} ELSE {} )
        \cup ( IF 10 * n > Len(vocab) THEN {"significantAddition"} ELSE {} )
        \cup ( IF Len(vocab) > 50 THEN {"vocabularySizeThreshold"} ELSE {} )
        \cup ( IF Cardinality({ c \in K : Conflicted(vocab, c) }) > 3
               THEN {"patternConflicts"} ELSE {} )

\* C18: reconstruction is recommended exactly when one of the four
\* triggers holds, the reasons name exactly the triggers that hold, one
\* entry each, and the trigger flags returned agree.
C18_RecommendedIffTrigger ==
    fn.op = "recommendation"
    => LET r == fn.recommendation
           held == TriggersHeld(fn.vocab, fn.newWordCount)
       IN  /\ r.shouldReconstruct = (held # {})
           /\ Range(r.reasons) = held
           /\ Len(r.reasons) = Cardinality(held)
           /\ \A t \in DOMAIN r.triggers : r.triggers[t] = (t \in held)

\* seven words in which b, d, g and k have three targets each, one of them
\* in five words of seven: the only reason is the pattern conflict
C18_Witness ==
    /\ fn.op = "recommendation"
    /\ Len(fn.vocab) = 7 /\ fn.newWordCount = 0
    /\ fn.recommendation.shouldReconstruct
    /\ fn.recommendation.reasons = <<"patternConflicts">>

\* ------------------------------------------------------------------ C11
\* the words of the original vocabulary that were reprocessed into a form
\* that differs from the old one
DifferingWords(vocab, redo) ==
    { n \in 1..Len(vocab) :
        /\ redo[n] # "fail"
        /\ NewEntry(vocab[n], redo[n])[1].sigment # vocab[n].sigment }

\* the re-derived vocabulary: the reprocessed entries, in order
RECURSIVE Rederived(_, _, _)
Rederived(vocab, redo, n) ==
    IF n = 0 THEN <<>>
    ELSE Rederived(vocab, redo, n - 1) \o NewEntry(vocab[n], redo[n])

\* C11: reconstructDictionary called with the recorded score s reports
\* before = s and after = the score of the re-derived vocabulary; every entry
\* of changes belongs to a word whose new form differs from the old one and
\* shows both forms, and changedWords is the number of such words.
C11_ReportsBeforeAfterAndChanges ==
    fn.op = "reconstructed"
    => LET r == fn.result
           derived == Rederived(fn.vocab, fn.redo, Len(fn.vocab))
           K == SourceLetters(derived)
           after == r.consistencyImprovement.after
           differing == DifferingWords(fn.vocab, fn.redo)
       IN  /\ r.consistencyImprovement.before = fn.beforeConsistency
           /\ K = {} => after.num = 0
           /\ K # {} =>
                 after.num * Cardinality(K) * ProductOfTotals(derived, K)
                    = after.den * ScaledSum(derived, K, K)
           /\ \A k \in 1..Len(r.changes) :
                 /\ r.changes[k].old # r.changes[k].new
                 /\ \E n \in differing :
                       /\ r.changes[k].english = fn.vocab[n].english
                       /\ r.changes[k].old = fn.vocab[n].sigment
                       /\ r.changes[k].new
                            = NewEntry(fn.vocab[n], fn.redo[n])[1].sigment
           /\ r.changedWords = Cardinality(differing)
           /\ r.totalChanges = Cardinality(differing)

\* recorded score 65; of two words one is reprocessed into a new form and
\* one into its old form: one change is reported
C11_Witness ==
    /\ fn.op = "reconstructed"
    /\ fn.beforeConsistency = Whole(65)
    /\ Len(fn.vocab) = 2
    /\ fn.redo = <<"respelled", "same">>
    /\ fn.result.consistencyImprovement.before = Whole(65)
    /\ fn.result.changedWords = 1 /\ Len(fn.result.changes) = 1
    /\ fn.result.changes[1].old # fn.result.changes[1].new

\* ------------------------------------------------------------------ C13
\* the entries of the vocabulary whose constructed form no other entry has
Unshared(map) ==
    { n \in 1..Len(map) :
        \A m \in 1..Len(map) :
            m # n => map[m].value.sigment # map[n].value.sigment }

\* C13: in the table built from the vocabulary after any sequence of adds,
\* the constructed form of every entry that shares its form with no other
\* source word leads back to the entry's source word.
C13_RoundTripForUnsharedForms ==
    fn.op = "table"
    => \A n \in Unshared(fn.vocabulary) :
          LET entry == fn.vocabulary[n].value
          IN  /\ entry.sigment \in DOMAIN fn.table.dictionary
              /\ fn.table.dictionary[entry.sigment].english = entry.english
              /\ entry.english = fn.vocabulary[n].key

\* three words, two of them on one form: the third one's form leads back
C13_Witness ==
    /\ fn.op = "table"
    /\ Len(fn.vocabulary) = 3
    /\ Cardinality(Unshared(fn.vocabulary)) = 1
    /\ \A n \in Unshared(fn.vocabulary) :
          fn.table.dictionary[fn.vocabulary[n].value.sigment].english
              = fn.vocabulary[n].key
    /\ fn.table.entries = 2

\* ------------------------------------------------------------------ C14
\* C14: every non-empty source word, under every style, is decomposed,
\* transformed and post-processed into a non-empty constructed word.
C14_ConstructedWordNonEmpty ==
    (fn.op = "sigment" /\ fn.word # <<>>) => fn.sigment # <<>>

\* a word of four equal characters is shortened to one character
C14_Witness ==
    /\ fn.op = "sigment"
    /\ fn.style = "phonetic_logic"
    /\ fn.word = <<"a", "a", "a", "a">>
    /\ fn.systematic = <<"a", "a">>
    /\ fn.sigment = <<"a">>

\* ------------------------------------------------------------------ C19
\* the span of the root morpheme in a decomposed word: the positions, from
\* 0, after the prefix and before the suffix
AffixLength(morphemes, type) ==
    IF \E k \in 1..Len(morphemes) : morphemes[k].type = type
    THEN Len(morphemes[CHOOSE k \in 1..Len(morphemes) :
                          morphemes[k].type = type].value)
    ELSE 0
RootSpan(word, morphemes) ==
    { p \in 0..(Len(word) - 1) :
        /\ p >= AffixLength(morphemes, "prefix")
        /\ p < Len(word) - AffixLength(morphemes, "suffix") }

\* C19: under consonant_shift a character of the word is replaced by its
\* image in the table exactly when it is a table letter at a position of
\* the root morpheme's span; characters of the prefix and of the suffix
\* and characters outside the table stay as they are.
C19_ShiftExactlyInsideRootSpan ==
    (fn.op = "sigment" /\ fn.style = "consonant_shift")
    => /\ Len(fn.systematic) = Len(fn.lowered)
       /\ \A k \in 1..Len(fn.lowered) :
             fn.systematic[k] =
                IF /\ fn.lowered[k] \in ShiftLetters
                   /\ (k - 1) \in RootSpan(fn.lowered, fn.morphemes)
                THEN shiftRules(fn.lowered[k])
                ELSE fn.lowered[k]

\* ------------------------------------------------------------------ C16
\* the entry of a word in the vocabulary, as a list of at most one element
EntryOf(map, word) ==
    SelectSeq(map, LAMBDA e : e.key = word)

\* C16: a request to the enrichment service that fails, runs into the
\* timeout or brings an answer that cannot be parsed does not abort the
\* word: no error is recorded, the word is in the vocabulary with a
\* transformed form, and the failed enrichment is one of the fixed records
\* of the code (origin "unknown" and no related words for the etymology, the
\* placeholder or empty lists for the definitions), never service data.
C16_EnrichmentFailureKeepsWord ==
    (/\ fn.op = "processed"
     /\ fn.last.etymology \in BadAnswers \/ fn.last.definitions \in BadAnswers)
    => LET word == fn.last.word
           found == EntryOf(fn.vocabulary, word)
       IN  /\ fn.errors = <<>>
           /\ Len(found) = 1
           /\ found[1].value.sigment
                \in transformWord(word, decomposeMorphemes(word), fn.style)
           /\ fn.last.etymology \in BadAnswers
                => /\ found[1].value.etymology.etymology
                        \in {getDefaultEtymology(word), EtymologyTemplate}
                   /\ found[1].value.etymology.etymology.origin = "unknown"
                   /\ found[1].value.etymology.etymology.relatedWords = <<>>
           /\ fn.last.definitions \in BadAnswers
                => found[1].value.definitions
                     \in {getDefaultDefinitions(word), DefinitionsTemplate}

\* the etymology request times out and the answer with the definitions
\* cannot be parsed: the word is in the vocabulary with both defaults
C16_Witness ==
    /\ fn.op = "processed"
    /\ fn.last.etymology = "timeout"
    /\ fn.last.definitions = "unparsable"
    /\ fn.calls = 1
    /\ Len(fn.vocabulary) = 1
    /\ fn.vocabulary[1].key = fn.last.word
    /\ fn.vocabulary[1].value.etymology.etymology
          = getDefaultEtymology(fn.last.word)
    /\ fn.vocabulary[1].value.definitions = DefinitionsTemplate

\* ------------------------------------------------------------------ C21
\* C21: while a batch runs, up to its end in Completed or Stopped, every
\* source word that was in the vocabulary when the batch started keeps its
\* entry unchanged, also when the input list contains that word.
C21_BatchKeepsExistingEntries ==
    [][ (pc # "idle" /\ procs' = procs)
        => \A w \in hist.vocabAtCall :
              /\ w \in DOMAIN vocabulary /\ w \in DOMAIN vocabulary'
              /\ vocabulary'[w] = vocabulary[w] ]_vars

\* a completed batch whose list began with a word of the vocabulary: the
\* word has the entry it was loaded with, next to three new entries
C21_Witness ==
    /\ pc = "idle" /\ outcome = "completed"
    /\ newWords = <<"a", "b", "c", "d">>
    /\ "a" \in hist.vocabAtCall
    /\ vocabulary["a"] = vocabularyEntry("a", 0)
    /\ hist.inserted = 3
    /\ DOMAIN vocabulary = {"a", "b", "c", "d"}

\* ------------------------------------------------------------------ C22
\* the results the default style may give when the two steps are applied
\* by the average semantic weight (the sum of the weights, in tenths, over
\* their number): the substitution above 0.3, the doubling above 0.6
DefaultByAverageWeight(word, morphemes) ==
    LET substituted == IF WeightSum(morphemes) > 3 * Len(morphemes)
                       THEN applyMildConsonantShift(word)
                       ELSE word
    IN  IF WeightSum(morphemes) > 6 * Len(morphemes)
        THEN applyVowelVariation(substituted)
        ELSE {substituted}

\* C22: in the default style the paired consonant substitution is applied
\* exactly when the average semantic weight of the morphemes exceeds 0.3,
\* and the vowel doubling in addition exactly when it exceeds 0.6.
C22_DefaultStepsByAverageWeight ==
    (fn.op = "sigment" /\ fn.style = "default")
    => fn.systematic \in DefaultByAverageWeight(fn.lowered, fn.morphemes)

\* ------------------------------------------------------------------ C23
\* the dominant class of a word: front when its front vowels strictly
\* outnumber its back vowels, otherwise back
DominantVowels(word) ==
    IF CountIn(word, HarmonyFront) > CountIn(word, HarmonyBack)
    THEN HarmonyFront ELSE HarmonyBack

RECURSIVE DigraphsConsumed(_)
DigraphsConsumed(word) ==
    IF word = <<>> THEN <<>>
    ELSE IF Len(word) >= 2 /\ SubSeq(word, 1, 2) \in AsciiCombinationKeys
         THEN asciiCombinations(SubSeq(word, 1, 2))
                 \o DigraphsConsumed(SubSeq(word, 3, Len(word)))
         ELSE asciiPhoneticMap(word[1]) \o DigraphsConsumed(Tail(word))

\* C24: in plain-character mode a matched digraph gives its output once and
\* takes both of its characters: the second character gives no output and
\* does not begin another digraph.
C24_DigraphConsumesBothCharacters ==
    fn.op = "pronunciation" => fn.pronunciation = DigraphsConsumed(fn.word)

\* ------------------------------------------------------------------ C25
\* C25: once a stop has been requested, no further word is handed to
\* processWord, whether the request came while a word was in flight, between
\* two words, during a save or while the batch was waiting in Paused.
C25_NoWordStartsAfterStopRequest ==
    [][ (pc' = "inflight" /\ pc # "inflight" /\ procs' = procs)
        => ~BS.shouldStop ]_vars

\* ------------------------------------------------------------------ C26
\* C26: the first interrupt received during a running batch only requests
\* the stop and never ends the process, also when the generator has already
\* run earlier batches in the same process; only a second interrupt during
\* the same batch ends the process.
C26_FirstInterruptNeverForceExits ==
    [][ (exited' /\ ~exited /\ pc # "idle" /\ handlers >= 1)
        => BS.shouldStop ]_vars

\* ------------------------------------------------------------------ C27
\* C27: reconstruction never loses a source word: after reconstructDictionary
\* the vocabulary has exactly the source-word keys it had before, also when
\* re-processing failed for some of the words.
C27_ReconstructionKeepsSourceWords ==
    [][ recons' = recons + 1
        => DOMAIN vocabulary' = DOMAIN reconResult'.before ]_vars

\* ------------------------------------------------------------------ C28
\* C28: two batch runs that overlap on one generator do not interfere: each
\* run that ends, ends completed or stopped and not with an error, and a
\* completed run has handed every non-blank word of its own list to
\* processWord.
C28_OverlappingRunsDoNotInterfere ==
    fn.op = "overlap" =>
       \A r \in OverlapRuns :
          LET s == fn.run[r]
          IN  /\ s.pc = "done" => s.outcome \in {"completed", "stopped"}
              /\ s.outcome = "completed" => WordsOf(s.wordList) \subseteq s.started

\* ------------------------------------------------------------------ C29
\* C29: every checkpoint written by a run that was not resumed from an
\* earlier checkpoint has 0 <= currentIndex <= totalWords, holds every
\* non-blank word of the list positions below currentIndex in processedWords,
\* and holds no word of a position at or above currentIndex unless the word
\* also occurs below currentIndex.
C29_FreshRunCheckpointMatchesList ==
    [][ ( /\ progressFiles'[languageName] # progressFiles[languageName]
          /\ progressFiles'[languageName] # <<>>
          /\ ~hist.resumed )
        => LET saved == progressFiles'[languageName][1]
               below == { trim(wordList[k]) : k \in 1..saved.currentIndex }
           IN  /\ 0 <= saved.currentIndex
               /\ saved.currentIndex <= saved.totalWords
               /\ saved.totalWords = Len(wordList)
               /\ below \ {""} \subseteq saved.processedWords
               /\ \A k \in (saved.currentIndex + 1)..Len(wordList) :
                     trim(wordList[k]) \in saved.processedWords
                        => trim(wordList[k]) \in below ]_vars

\* a run over b, b that was not resumed was stopped after its first word: the
\* checkpoint has index 1 and holds b, which is also the word at position 2
C29_Witness ==
    /\ pc = "idle" /\ outcome = "stopped" /\ ~hist.resumed
    /\ wordList = <<"b", "b">> /\ hist.ckptFrom = "stop"
    /\ progressFiles[languageName] # <<>>
    /\ progressFiles[languageName][1].currentIndex = 1
    /\ progressFiles[languageName][1].totalWords = 2
    /\ progressFiles[languageName][1].processedWords = {"b"}

\* ------------------------------------------------------------------ C30
\* the styles without a random choice
DeterministicStyles == {"consonant_shift", "morpheme_emphasis", "phonetic_logic"}

====
